---- MODULE Spec2Model ----
(***************************************************************************)
(* Event ingestion and analytics-query pipeline of the analytics engine:   *)
(* request throttles, API-key validation, user-agent / address enrichment, *)
(* the event writer with its cache invalidation, and the cache-aside       *)
(* aggregation queries (event summary, user statistics).                   *)
(***************************************************************************)
EXTENDS Integers, Sequences, FiniteSets, TLC

(***************************************************************************)
(* Bounds of the model.                                                    *)
(***************************************************************************)
MaxNow == 1          \* the clock runs over 0..MaxNow
MaxKeys == 2         \* rows of api_keys
MaxSecrets == 3      \* secrets generateApiKey hands out
MaxEvents == 6       \* rows of events
AuthEvents == 1      \* rows of events in SpecAuth
AuthKeys == 1        \* rows of api_keys in SpecAuth
SumEvents == 3       \* rows of events in SpecSummary

(***************************************************************************)
(* Program constants, scaled: only their order matters to the throttles    *)
(* (general budget < ingestion budget) and to key expiry.                  *)
(***************************************************************************)
ApiMax == 4          \* RATE_LIMIT_MAX_REQUESTS, 100 per 15 minutes
CollectMax == 5      \* eventCollectionLimiter max, 1000 per minute
AnalyticsMax == 2    \* analyticsLimiter max, 60 per minute
ExpiryDays == 1      \* API_KEY_EXPIRY_DAYS, 365 days
MaxNameLen == 255    \* Joi.string().max(255)
RecentLimit == 10    \* LIMIT 10 of the recent-events lateral join

NULL == "NULL"       \* SQL NULL / JS undefined, for text values
NoTime == -1         \* SQL NULL / JS undefined, for timestamps

Users == {"u1", "u2"}                 \* rows of users (created by the OAuth login)
KeyIdOf(n) == <<"k1", "k2", "k3", "k4">>[n]
SecretOf(n) == <<"s1", "s2", "s3", "s4", "s5">>[n]
Bogus == "s-unknown"                  \* a secret no row ever held
Times == 0..MaxNow

EmptyMap == [k \in {} |-> 0]
Min(a, b) == IF a < b THEN a ELSE b

(***************************************************************************)
(* utils/userAgent.ts.  A signature is modelled by its name; includes()    *)
(* by the set of rule tokens its lower-cased text contains.                *)
(***************************************************************************)
Tokens == {"chrome", "edg", "safari", "firefox", "opera", "opr",
           "windows", "mac", "linux", "android", "ios", "iphone", "ipad",
           "mobile", "tablet"}

UAStrings == {"ChromeWindows", "SafariIPhone", "ChromeAndroid", "Unknown Browser",
              "EdgeWindows", "FirefoxLinux", "SafariIPad"}

toLowerCase(userAgent) ==
    CASE userAgent = "ChromeWindows" -> {"windows", "chrome", "safari"}
      [] userAgent = "SafariIPhone" -> {"iphone", "mac", "mobile", "safari"}
      [] userAgent = "ChromeAndroid" -> {"linux", "android", "chrome", "mobile", "safari"}
      [] userAgent = "EdgeWindows" -> {"windows", "chrome", "safari", "edg"}
      [] userAgent = "FirefoxLinux" -> {"linux", "firefox"}
      [] userAgent = "SafariIPad" -> {"ipad", "mac", "mobile", "safari"}
      [] OTHER -> {}

detectBrowser(ua) ==
    IF "chrome" \in ua /\ "edg" \notin ua THEN "Chrome"
    ELSE IF "safari" \in ua /\ "chrome" \notin ua THEN "Safari"
    ELSE IF "firefox" \in ua THEN "Firefox"
    ELSE IF "edg" \in ua THEN "Edge"
    ELSE IF "opera" \in ua \/ "opr" \in ua THEN "Opera"
    ELSE "Unknown"

detectOS(ua) ==
    IF "windows" \in ua THEN "Windows"
    ELSE IF "mac" \in ua THEN "macOS"
    ELSE IF "linux" \in ua THEN "Linux"
    ELSE IF "android" \in ua THEN "Android"
    ELSE IF "ios" \in ua \/ "iphone" \in ua \/ "ipad" \in ua THEN "iOS"
    ELSE "Unknown"

\* as detectDevice, a tablet signal looked at first
detectDevice_TabletFirst(ua) ==
    IF "tablet" \in ua \/ "ipad" \in ua THEN "tablet"
    ELSE IF "mobile" \in ua \/ "android" \in ua THEN "mobile"
    ELSE "mobile"
detectDevice(ua) ==
    IF "mobile" \in ua \/ "android" \in ua THEN "mobile"
    ELSE IF "tablet" \in ua \/ "ipad" \in ua THEN "tablet"
    ELSE "desktop"

\* the result for a signature whose lower-cased text contains the tokens ua
parseTokens(ua) ==
    [browser |-> detectBrowser(ua), os |-> detectOS(ua), device |-> detectDevice(ua)]

parseUserAgent(userAgent) == parseTokens(toLowerCase(userAgent))

(***************************************************************************)
(* Network addresses.  ValidInet is what the INET column (and Joi's ip())  *)
(* accepts; every other text is rejected by the column.                    *)
(***************************************************************************)
ValidInet == {"10.0.0.1", "10.0.0.2", "10.0.0.3"}
IsInet(s) == s \in ValidInet

\* x-forwarded-for is the sequence of its comma-separated entries
\* (NoHeader: the header is absent); the other sources are a text or NULL.
NoHeader == <<"NOHEADER">>
\* String.prototype.trim on the texts used here
trim(s) ==
    CASE s = " 10.0.0.1" -> "10.0.0.1"
      [] s = " " -> ""
      [] OTHER -> s
\* as extractIpAddress, the entry nearest to this server taken
extractIpAddress_LastEntry(xff, realIp, remoteAddress) ==
    IF xff # NoHeader /\ xff # <<>> /\ trim(xff[Len(xff)]) # "" THEN trim(xff[Len(xff)])
    ELSE IF realIp # NULL /\ realIp # "" THEN realIp
    ELSE IF remoteAddress # NULL /\ remoteAddress # "" THEN remoteAddress
    ELSE "unknown"
extractIpAddress(xff, realIp, remoteAddress) ==
    IF xff # NoHeader /\ xff # <<>> /\ trim(Head(xff)) # "" THEN trim(Head(xff))
    ELSE IF realIp # NULL /\ realIp # "" THEN realIp
    ELSE IF remoteAddress # NULL /\ remoteAddress # "" THEN remoteAddress
    ELSE "unknown"

(***************************************************************************)
(* middleware/validation.ts: schemas.collectEvent                          *)
(***************************************************************************)
LongName == "x256"                   \* an event name of 256 characters
StrLen(s) == CASE s = "" -> 0 [] s = LongName -> 256 [] OTHER -> 5
DeviceClasses == {"mobile", "tablet", "desktop"}
ValidUris == {"https://example.com", "https://google.com"}

\* as collectEventSchemaOk, the event name without min(1) and max(255)
collectEventSchemaOk_AnyName(body) ==
    /\ body.event # NULL
    /\ body.url = NULL \/ body.url \in ValidUris
    /\ body.referrer = NULL \/ body.referrer \in ValidUris
    /\ body.device = NULL \/ body.device \in DeviceClasses
    /\ body.ipAddress = NULL \/ IsInet(body.ipAddress)
    /\ body.timestamp = NoTime \/ body.timestamp \in Nat
    /\ body.user_id = NULL \/ StrLen(body.user_id) <= MaxNameLen

\* as collectEventSchemaOk, the device without valid('mobile', 'tablet', 'desktop')
collectEventSchemaOk_AnyDevice(body) ==
    /\ body.event # NULL /\ StrLen(body.event) >= 1 /\ StrLen(body.event) <= MaxNameLen
    /\ body.url = NULL \/ body.url \in ValidUris
    /\ body.referrer = NULL \/ body.referrer \in ValidUris
    /\ body.ipAddress = NULL \/ IsInet(body.ipAddress)
    /\ body.timestamp = NoTime \/ body.timestamp \in Nat
    /\ body.user_id = NULL \/ StrLen(body.user_id) <= MaxNameLen
\* schemas.collectEvent
collectEventSchemaOk(body) ==
    /\ body.event # NULL /\ StrLen(body.event) >= 1 /\ StrLen(body.event) <= MaxNameLen
    /\ body.url = NULL \/ body.url \in ValidUris
    /\ body.referrer = NULL \/ body.referrer \in ValidUris
    /\ body.device = NULL \/ body.device \in DeviceClasses
    /\ body.ipAddress = NULL \/ IsInet(body.ipAddress)
    /\ body.timestamp = NoTime \/ body.timestamp \in Nat
    /\ body.user_id = NULL \/ StrLen(body.user_id) <= MaxNameLen

(***************************************************************************)
(* State.                                                                  *)
(***************************************************************************)
VARIABLES
    now,        \* CURRENT_TIMESTAMP / new Date()
    issued,     \* number of secrets generateApiKey has produced
    api_keys,   \* table api_keys, a sequence of rows in creation order
    events,     \* table events, a sequence of rows in insertion order (id = index)
    cache,      \* redis: the entries present, key |-> serialized value
    hits,       \* the MemoryStore of each rate limiter: key |-> hits in the window
    tasks,      \* detached promises (fire and forget) that have not run yet
    resp        \* the response this step sent (NoResp when the step sent none)

vars == <<now, issued, api_keys, events, cache, hits, tasks, resp>>

NoData == [none |-> TRUE]
NoReq == [none |-> TRUE]
NoResp == [op |-> "none", status |-> 0, by |-> "none", message |-> "",
           cached |-> FALSE, data |-> NoData, req |-> NoReq]
Reply(op, status, by, message, cached, data, req) ==
    [op |-> op, status |-> status, by |-> by, message |-> message,
     cached |-> cached, data |-> data, req |-> req]

KeyIds == {KeyIdOf(n) : n \in 1..MaxKeys}
RowOf(id) == api_keys[CHOOSE n \in DOMAIN api_keys : api_keys[n].id = id]
HasRow(id) == \E n \in DOMAIN api_keys : api_keys[n].id = id
OwnerOf(id) == RowOf(id).user_id

(***************************************************************************)
(* WHERE ak.api_key = $1 AND ak.is_active = true AND (ak.expires_at IS     *)
(* NULL OR ak.expires_at > CURRENT_TIMESTAMP): the lookup of validateApiKey *)
(* and optionalApiKey (api_key is UNIQUE, so at most one row).             *)
(***************************************************************************)
NotExpired_OffByOne(row) == row.expires_at = NoTime \/ row.expires_at >= now
NotExpired(row) == row.expires_at = NoTime \/ row.expires_at > now
\* as UsableRows, without "AND is_active = true"
UsableRows_IgnoreActive(apiKey) ==
    {n \in DOMAIN api_keys :
        /\ api_keys[n].api_key = apiKey
        /\ NotExpired(api_keys[n])}
UsableRows(apiKey) ==
    {n \in DOMAIN api_keys :
        /\ api_keys[n].api_key = apiKey
        /\ api_keys[n].is_active
        /\ NotExpired(api_keys[n])}

(***************************************************************************)
(* express-rate-limit with its MemoryStore: a fixed window per limiter.    *)
(* The hit is counted first and the request refused when the count         *)
(* exceeds max.  The count is capped at max + 1.                           *)
(***************************************************************************)
HitsOf(store, key) == IF key \in DOMAIN store THEN store[key] ELSE 0
Hit(store, key, max) ==
    [k \in DOMAIN store \cup {key} |->
        IF k = key THEN Min(HitsOf(store, key) + 1, max + 1) ELSE store[k]]
\* as OverLimit, refusing the request that reaches the budget
OverLimit_AtBudget(store, key, max) == HitsOf(store, key) >= max
OverLimit(store, key, max) == HitsOf(store, key) > max

\* time since the previous request: "none" (same windows), "minute" (the
\* one-minute windows have elapsed) or "quarter" (also the 15-minute window)
Gaps == {"none", "minute", "quarter"}
Elapse(h, gap) ==
    [api |-> IF gap = "quarter" THEN EmptyMap ELSE h.api,
     collect |-> IF gap = "none" THEN h.collect ELSE EmptyMap,
     analytics |-> IF gap = "none" THEN h.analytics ELSE EmptyMap]

\* as Expire, every request clearing the cache
Expire_Flush(c, gap) == EmptyMap
\* what is left of the cache after the gap: a quarter of an hour outlasts
\* every TTL the controllers set (300 s and 180 s); within a shorter gap an
\* entry goes when cacheExpire takes it
Expire(c, gap) == IF gap = "quarter" THEN EmptyMap ELSE c

apiLimiterKey(remote) == IF remote = NULL THEN "undefined" ELSE remote
keyGenerator(apiKey, remote) ==
    IF apiKey # NULL /\ apiKey # "" THEN apiKey
    ELSE IF remote # NULL THEN remote
    ELSE "unknown"

(***************************************************************************)
(* Init: the database is migrated and empty, redis is empty, no request    *)
(* has been served.                                                        *)
(***************************************************************************)
Init ==
    /\ now = 0
    /\ issued = 0
    /\ api_keys = <<>>
    /\ events = <<>>
    /\ cache = EmptyMap
    /\ hits = [api |-> EmptyMap, collect |-> EmptyMap, analytics |-> EmptyMap]
    /\ tasks = {}
    /\ resp = NoResp

\* the clock advances by one unit of now (a day): every limiter window and
\* every TTL has run out
Tick ==
    /\ now < MaxNow
    /\ now' = now + 1
    /\ hits' = Elapse(hits, "quarter")
    /\ cache' = Expire(cache, "quarter")
    /\ resp' = NoResp
    /\ UNCHANGED <<issued, api_keys, events, tasks>>

(***************************************************************************)
(* Credential lifecycle (authController).  session is the account the      *)
(* identity provider attached to the request, NULL when there is none.     *)
(***************************************************************************)
generateApiKey == SecretOf(issued + 1)
generateExpiryDate(days) == now + days

NewRow(id, user, apiKey, expiresAt) ==
    [id |-> id, user_id |-> user, api_key |-> apiKey, is_active |-> TRUE,
     expires_at |-> expiresAt, revoked_at |-> NoTime, last_used_at |-> NoTime]

\* as isAuthenticated, every request let through
isAuthenticated_Open(session) == TRUE
isAuthenticated(session) == session # NULL
AuthRequired == "Authentication required. Please login with Google."

registerApp(session) ==
    /\ Len(api_keys) < MaxKeys
    /\ issued < MaxSecrets
    /\ IF ~isAuthenticated(session)
       THEN /\ resp' = Reply("register", 401, "isAuthenticated", AuthRequired, FALSE,
                             NoData, [session |-> session])
            /\ UNCHANGED <<issued, api_keys>>
       ELSE /\ api_keys' = Append(api_keys,
                                  NewRow(KeyIdOf(Len(api_keys) + 1), session, generateApiKey,
                                         generateExpiryDate(ExpiryDays)))
            /\ issued' = issued + 1
            /\ resp' = Reply("register", 201, "registerApp", "API key generated successfully",
                             FALSE, [id |-> KeyIdOf(Len(api_keys) + 1), api_key |-> generateApiKey],
                             [session |-> session])
    /\ UNCHANGED <<now, events, cache, hits, tasks>>

\* the direct INSERT INTO api_keys of the test setup: no expires_at
insertApiKey(user) ==
    /\ Len(api_keys) < MaxKeys
    /\ issued < MaxSecrets
    /\ api_keys' = Append(api_keys,
                          NewRow(KeyIdOf(Len(api_keys) + 1), user, generateApiKey, NoTime))
    /\ issued' = issued + 1
    /\ resp' = NoResp
    /\ UNCHANGED <<now, events, cache, hits, tasks>>

\* client.del(key) of cacheDelete: the one entry with exactly that key
cacheDelete(c, key) == [k \in DOMAIN c \ {key} |-> c[k]]

\* the texts PostgreSQL casts to uuid (and Joi's uuid() accepts)
Uuids == {KeyIdOf(n) : n \in 1..4}

\* UPDATE api_keys ... WHERE id = $1 AND user_id = $2
OwnedRows(id, user) ==
    {n \in DOMAIN api_keys : api_keys[n].id = id /\ api_keys[n].user_id = user}

\* as revokedRow, without "is_active = false"
revokedRow_StampOnly(row) == [row EXCEPT !.revoked_at = now]
\* SET is_active = false, revoked_at = CURRENT_TIMESTAMP
revokedRow(row) == [row EXCEPT !.is_active = FALSE, !.revoked_at = now]

\* as regeneratedRow, without "is_active = true, revoked_at = NULL"
regeneratedRow_SecretOnly(row) ==
    [row EXCEPT !.api_key = generateApiKey, !.expires_at = generateExpiryDate(ExpiryDays)]
\* SET api_key = $1, expires_at = $2, is_active = true, revoked_at = NULL
regeneratedRow(row) ==
    [row EXCEPT !.api_key = generateApiKey,
                !.expires_at = generateExpiryDate(ExpiryDays),
                !.is_active = TRUE,
                !.revoked_at = NoTime]

revokeApiKey(session, id) ==
    /\ IF ~isAuthenticated(session)
       THEN /\ resp' = Reply("revoke", 401, "isAuthenticated", AuthRequired, FALSE, NoData,
                             [session |-> session, id |-> id])
            /\ UNCHANGED <<api_keys, cache>>
       ELSE IF id \notin Uuids
       THEN /\ resp' = Reply("revoke", 500, "revokeApiKey", "Error revoking API key", FALSE,
                             NoData, [session |-> session, id |-> id])
            /\ UNCHANGED <<api_keys, cache>>
       ELSE IF OwnedRows(id, session) = {}
       THEN /\ resp' = Reply("revoke", 404, "revokeApiKey", "API key not found", FALSE, NoData,
                             [session |-> session, id |-> id])
            /\ UNCHANGED <<api_keys, cache>>
       ELSE /\ api_keys' = [n \in DOMAIN api_keys |->
                               IF n \in OwnedRows(id, session)
                               THEN revokedRow(api_keys[n])
                               ELSE api_keys[n]]
            /\ cache' = cacheDelete(cache, <<"apikey", id, "*">>)
            /\ resp' = Reply("revoke", 200, "revokeApiKey", "API key revoked successfully",
                             FALSE, [id |-> id, revoked_at |-> now],
                             [session |-> session, id |-> id])
    /\ UNCHANGED <<now, issued, events, hits, tasks>>

regenerateApiKey(session, id) ==
    /\ issued < MaxSecrets
    /\ IF ~isAuthenticated(session)
       THEN /\ resp' = Reply("regenerate", 401, "isAuthenticated", AuthRequired, FALSE, NoData,
                             [session |-> session, id |-> id])
            /\ UNCHANGED <<api_keys, cache, issued>>
       ELSE IF id \notin Uuids
       THEN /\ resp' = Reply("regenerate", 500, "regenerateApiKey",
                             "Error regenerating API key", FALSE, NoData,
                             [session |-> session, id |-> id])
            /\ issued' = issued + 1
            /\ UNCHANGED <<api_keys, cache>>
       ELSE IF OwnedRows(id, session) = {}
       THEN /\ resp' = Reply("regenerate", 404, "regenerateApiKey", "API key not found", FALSE,
                             NoData, [session |-> session, id |-> id])
            /\ issued' = issued + 1
            /\ UNCHANGED <<api_keys, cache>>
       ELSE /\ api_keys' = [n \in DOMAIN api_keys |->
                               IF n \in OwnedRows(id, session)
                               THEN regeneratedRow(api_keys[n])
                               ELSE api_keys[n]]
            /\ issued' = issued + 1
            /\ cache' = cacheDelete(cache, <<"apikey", id, "*">>)
            /\ resp' = Reply("regenerate", 200, "regenerateApiKey",
                             "API key regenerated successfully", FALSE,
                             [id |-> id, api_key |-> generateApiKey],
                             [session |-> session, id |-> id])
    /\ UNCHANGED <<now, events, hits, tasks>>

(***************************************************************************)
(* Detached promises.                                                      *)
(***************************************************************************)
LastUsedTask(id) == [type |-> "lastUsed", id |-> id, ev |-> 0]
\* cacheDeletePattern(`analytics:${apiKeyId}:*`) issued after insert number ev
InvalidateTask(id, ev) == [type |-> "invalidate", id |-> id, ev |-> ev]

(***************************************************************************)
(* POST /api/analytics/collect:                                            *)
(*   apiLimiter, eventCollectionLimiter, validateApiKey,                   *)
(*   validate(schemas.collectEvent), collectEvent                          *)
(* A request is [gap, remote, apiKey, userAgent, xff, realIp, body, db]:   *)
(* db is "ok", "lookupFails" (the SELECT of validateApiKey throws) or      *)
(* "insertFails" (the INSERT of collectEvent throws).                      *)
(***************************************************************************)
NoMeta == [k \in {"ABSENT"} |-> ""]
ScreenMax == 50                      \* screen_size VARCHAR(50)
LongSize == "x51"                    \* a screen size of 51 characters
SizeLen(s) == IF s = LongSize THEN 51 ELSE 9

\* { userAgent, ...metadata }: a key of the caller wins
Enrich_CallerFirst(metadata, userAgent) ==
    [k \in DOMAIN metadata \cup {"userAgent"} |->
        IF k \in DOMAIN metadata THEN metadata[k] ELSE userAgent]

\* { ...metadata, userAgent }
Enrich(metadata, userAgent) ==
    [k \in DOMAIN metadata \cup {"userAgent"} |->
        IF k = "userAgent" THEN userAgent ELSE metadata[k]]

\* as EventRow, the derived device, address and time taking precedence
EventRow_DerivedFirst(apiKeyId, req) ==
    LET body == req.body
        metadata == IF body.metadata = NoMeta THEN EmptyMap ELSE body.metadata
        userAgent == IF req.userAgent = NULL \/ req.userAgent = "" THEN "unknown"
                     ELSE req.userAgent
        parsedUA == parseUserAgent(userAgent)
    IN  [api_key_id |-> apiKeyId,
         event_name |-> body.event,
         url |-> body.url,
         referrer |-> body.referrer,
         device |-> parsedUA.device,
         ip_address |-> extractIpAddress(req.xff, req.realIp, req.remote),
         user_agent |-> userAgent,
         browser |-> parsedUA.browser,
         os |-> parsedUA.os,
         screen_size |-> IF "screenSize" \in DOMAIN metadata THEN metadata["screenSize"]
                         ELSE NULL,
         user_id |-> body.user_id,
         metadata |-> Enrich(metadata, userAgent),
         timestamp |-> now,
         created_at |-> now]

\* the row collectEvent hands to INSERT INTO events
EventRow(apiKeyId, req) ==
    LET body == req.body
        metadata == IF body.metadata = NoMeta THEN EmptyMap ELSE body.metadata
        userAgent == IF req.userAgent = NULL \/ req.userAgent = "" THEN "unknown"
                     ELSE req.userAgent
        parsedUA == parseUserAgent(userAgent)
    IN  [api_key_id |-> apiKeyId,
         event_name |-> body.event,
         url |-> body.url,
         referrer |-> body.referrer,
         device |-> IF body.device # NULL /\ body.device # "" THEN body.device
                    ELSE parsedUA.device,
         ip_address |-> IF body.ipAddress # NULL /\ body.ipAddress # "" THEN body.ipAddress
                        ELSE extractIpAddress(req.xff, req.realIp, req.remote),
         user_agent |-> userAgent,
         browser |-> parsedUA.browser,
         os |-> parsedUA.os,
         screen_size |-> IF "screenSize" \in DOMAIN metadata THEN metadata["screenSize"]
                         ELSE NULL,
         user_id |-> body.user_id,
         metadata |-> Enrich(metadata, userAgent),
         timestamp |-> IF body.timestamp # NoTime THEN body.timestamp ELSE now,
         created_at |-> now]

\* as InsertAccepted, the address column taking any text
InsertAccepted_AnyAddress(row) ==
    row.screen_size = NULL \/ SizeLen(row.screen_size) <= ScreenMax
\* the events table takes the row: ip_address INET, screen_size VARCHAR(50)
InsertAccepted(row) ==
    /\ IsInet(row.ip_address)
    /\ row.screen_size = NULL \/ SizeLen(row.screen_size) <= ScreenMax

KeyRequired == "API key is required. Please include X-API-Key header."
KeyInvalid == "Invalid or expired API key."

\* as insertEvent, the new row taking the place of the latest one
insertEvent_Overwrite(ev, row) ==
    IF ev = <<>> THEN <<row>> ELSE [ev EXCEPT ![Len(ev)] = row]
\* INSERT INTO events (...) VALUES (...) RETURNING id, created_at
insertEvent(ev, row) == Append(ev, row)

\* as issueInvalidation, issued for the row the insert is about to store
issueInvalidation_Ahead(ts, id, ev) == ts \cup {InvalidateTask(id, ev + 1)}
\* as issueInvalidation, nothing left behind for later
issueInvalidation_None(ts, id, ev) == ts
\* cacheDeletePattern(...).catch(...): started, not awaited
issueInvalidation(ts, id, ev) == ts \cup {InvalidateTask(id, ev)}

\* what follows the throttles: validateApiKey, validate(collectEventSchema),
\* collectEvent; ts are the detached promises pending when it runs
collectPipeline(req, ts) ==
    LET found == UsableRows(req.apiKey)
        apiKeyData == api_keys[CHOOSE n \in found : TRUE]
        row == EventRow(apiKeyData.id, req)
    IN
    IF req.apiKey = NULL \/ req.apiKey = ""
    THEN /\ resp' = Reply("collect", 401, "validateApiKey", KeyRequired, FALSE, NoData, req)
         /\ events' = events /\ tasks' = ts
    ELSE IF req.db = "lookupFails"
    THEN /\ resp' = Reply("collect", 500, "validateApiKey", "Error validating API key.",
                          FALSE, NoData, req)
         /\ events' = events /\ tasks' = ts
    ELSE IF found = {}
    THEN /\ resp' = Reply("collect", 401, "validateApiKey", KeyInvalid, FALSE, NoData, req)
         /\ events' = events /\ tasks' = ts
    ELSE IF ~collectEventSchemaOk(req.body)
    THEN /\ resp' = Reply("collect", 400, "validate", "Validation error", FALSE, NoData, req)
         /\ tasks' = ts \cup {LastUsedTask(apiKeyData.id)}
         /\ UNCHANGED events
    ELSE IF req.db = "insertFails" \/ ~InsertAccepted(row)
    THEN /\ resp' = Reply("collect", 500, "collectEvent", "Error collecting event",
                          FALSE, NoData, req)
         /\ tasks' = ts \cup {LastUsedTask(apiKeyData.id)}
         /\ UNCHANGED events
    ELSE /\ Len(events) < MaxEvents
         /\ events' = insertEvent(events, row)
         /\ tasks' = issueInvalidation(ts \cup {LastUsedTask(apiKeyData.id)},
                                       apiKeyData.id, Len(events) + 1)
         /\ resp' = Reply("collect", 201, "collectEvent", "Event collected successfully",
                          FALSE, [id |-> Len(events) + 1, created_at |-> now], req)

collect(req) ==
    LET h0 == Elapse(hits, req.gap)
        h1 == [h0 EXCEPT !.api = Hit(h0.api, apiLimiterKey(req.remote), ApiMax)]
        key == keyGenerator(req.apiKey, req.remote)
        h2 == [h1 EXCEPT !.collect = Hit(h1.collect, key, CollectMax)]
    IN
    /\ IF OverLimit(h1.api, apiLimiterKey(req.remote), ApiMax)
       THEN /\ hits' = h1
            /\ resp' = Reply("collect", 429, "apiLimiter",
                             "Too many requests from this IP, please try again later.",
                             FALSE, NoData, req)
            /\ UNCHANGED <<events, tasks>>
       ELSE IF OverLimit(h2.collect, key, CollectMax)
       THEN /\ hits' = h2
            /\ resp' = Reply("collect", 429, "eventCollectionLimiter",
                             "Event collection rate limit exceeded.", FALSE, NoData, req)
            /\ UNCHANGED <<events, tasks>>
       ELSE /\ hits' = h2
            /\ collectPipeline(req, tasks)
    /\ cache' = Expire(cache, req.gap)
    /\ UNCHANGED <<now, issued, api_keys>>

\* as runLastUsed, a failure of the update answered as a failure of the lookup
runLastUsed_Surfacing(t, dbOk) ==
    /\ t \in tasks /\ t.type = "lastUsed"
    /\ tasks' = tasks \ {t}
    /\ api_keys' = api_keys
    /\ resp' = IF dbOk THEN NoResp
               ELSE Reply("collect", 500, "validateApiKey", "Error validating API key.",
                          FALSE, NoData, NoReq)
    /\ UNCHANGED <<now, issued, events, cache, hits>>
\* UPDATE api_keys SET last_used_at = CURRENT_TIMESTAMP WHERE id = $1; a
\* failure is logged and dropped
runLastUsed(t, dbOk) ==
    /\ t \in tasks /\ t.type = "lastUsed"
    /\ tasks' = tasks \ {t}
    /\ api_keys' = IF dbOk
                   THEN [n \in DOMAIN api_keys |->
                            IF api_keys[n].id = t.id
                            THEN [api_keys[n] EXCEPT !.last_used_at = now]
                            ELSE api_keys[n]]
                   ELSE api_keys
    /\ resp' = NoResp
    /\ UNCHANGED <<now, issued, events, cache, hits>>

(***************************************************************************)
(* Cache keys are the sequence of their ':'-separated segments.  A glob    *)
(* pattern is a sequence of literal segments closed by "*": it matches the *)
(* keys that start with the literal segments.                              *)
(***************************************************************************)
invalidatePattern(apiKeyId) == <<"analytics", apiKeyId, "*">>
GlobMatch(pattern, key) ==
    LET n == Len(pattern) - 1
    IN  /\ Len(key) >= n
        /\ \A i \in 1..n : key[i] = pattern[i]

\* cacheDeletePattern: client.keys(pattern), then client.del(keys) when some
\* key matches; a failure of either command is logged and dropped
cacheDeletePattern(c, pattern, redisOk) ==
    LET keys == {k \in DOMAIN c : GlobMatch(pattern, k)}
    IN  IF redisOk /\ keys # {} THEN [k \in DOMAIN c \ keys |-> c[k]] ELSE c

\* as runInvalidate, the command never settling
runInvalidate_Hanging(t, redisOk) ==
    /\ t \in tasks /\ t.type = "invalidate"
    /\ tasks' = tasks
    /\ cache' = cacheDeletePattern(cache, invalidatePattern(t.id), redisOk)
    /\ resp' = NoResp
    /\ UNCHANGED <<now, issued, api_keys, events, hits>>
runInvalidate(t, redisOk) ==
    /\ t \in tasks /\ t.type = "invalidate"
    /\ tasks' = tasks \ {t}
    /\ cache' = cacheDeletePattern(cache, invalidatePattern(t.id), redisOk)
    /\ resp' = NoResp
    /\ UNCHANGED <<now, issued, api_keys, events, hits>>

(***************************************************************************)
(* redis helpers (config/redis.ts).  An entry is [value, ttl]; a redis     *)
(* command that fails is caught: a miss for get, nothing for set.          *)
(***************************************************************************)
SummaryTTL == 300
UserTTL == 180

ISO(t) == <<"T0", "T1", "T2", "T3", "T4", "T5">>[t + 1]
JSONstringify(value) == [json |-> value]
JSONparse(text) == text.json

\* as cacheGet, the entry served although the command failed
cacheGet_IgnoresFailure(c, key, redisOk) ==
    IF key \in DOMAIN c
    THEN [hit |-> TRUE, text |-> c[key].value]
    ELSE [hit |-> FALSE, text |-> JSONstringify(NoData)]
\* [hit, text]: hit is FALSE for null (no entry, or the command failed)
cacheGet(c, key, redisOk) ==
    IF redisOk /\ key \in DOMAIN c
    THEN [hit |-> TRUE, text |-> c[key].value]
    ELSE [hit |-> FALSE, text |-> JSONstringify(NoData)]
cacheSet(c, key, value, ttl, redisOk) ==
    IF redisOk
    THEN [k \in DOMAIN c \cup {key} |->
             IF k = key THEN [value |-> value, ttl |-> ttl] ELSE c[k]]
    ELSE c

\* the TTL of an entry elapses
cacheExpire(key) ==
    /\ key \in DOMAIN cache
    /\ cache' = cacheDelete(cache, key)
    /\ resp' = NoResp
    /\ UNCHANGED <<now, issued, api_keys, events, hits, tasks>>

(***************************************************************************)
(* The aggregation query of getEventSummary.                               *)
(***************************************************************************)
Orders(S) == {f \in [1..Cardinality(S) -> S] : \A x \in S : \E i \in DOMAIN f : f[i] = x}

\* as summaryRows, without the condition ak.user_id = $n
summaryRows_AnyOwner(ev, q, userId) ==
    {i \in DOMAIN ev :
        /\ ev[i].event_name = q.event
        /\ HasRow(ev[i].api_key_id)
        /\ q.app_id # NULL => ev[i].api_key_id = q.app_id
        /\ q.startDate # NoTime => ev[i].timestamp >= q.startDate
        /\ q.endDate # NoTime => ev[i].timestamp <= q.endDate}

\* rows of FROM events e JOIN api_keys ak ... WHERE <conditions>
summaryRows(ev, q, userId) ==
    {i \in DOMAIN ev :
        /\ ev[i].event_name = q.event
        /\ HasRow(ev[i].api_key_id)
        /\ userId # NULL => OwnerOf(ev[i].api_key_id) = userId
        /\ q.app_id # NULL => ev[i].api_key_id = q.app_id
        /\ q.startDate # NoTime => ev[i].timestamp >= q.startDate
        /\ q.endDate # NoTime => ev[i].timestamp <= q.endDate}

\* SELECT api_key_id, <f>, COUNT(*) FROM events GROUP BY api_key_id, <f>
groupCount(ev, apiKeyId, f, v) ==
    Cardinality({j \in DOMAIN ev :
                    ev[j].api_key_id = apiKeyId /\ ev[j][f] = v})

\* json_object_agg(e.<f>, <f>_counts.count) FILTER (WHERE e.<f> IS NOT NULL)
\* over the rows in the order the aggregate receives them, read back by
\* JSON.parse: of the pairs with one key the last one stays.
objectAgg(ev, order, f) ==
    LET present == {ev[order[i]][f] : i \in DOMAIN order} \ {NULL}
        last(v) == CHOOSE i \in DOMAIN order :
                      /\ ev[order[i]][f] = v
                      /\ \A j \in DOMAIN order : ev[order[j]][f] = v => j <= i
    IN  [v \in present |-> groupCount(ev, ev[order[last(v)]].api_key_id, f, v)]

\* as summaryData, but COUNT(DISTINCT e.user_id) also counting the null value
summaryData_CountsNull(ev, q, rows, order) ==
    [event |-> q.event,
     count |-> Cardinality(rows),
     uniqueUsers |-> Cardinality({ev[i].user_id : i \in rows}),
     uniqueIps |-> Cardinality({ev[i].ip_address : i \in rows} \ {NULL}),
     deviceData |-> objectAgg(ev, order, "device"),
     browserData |-> objectAgg(ev, order, "browser"),
     osData |-> objectAgg(ev, order, "os")]

summaryData(ev, q, rows, order) ==
    [event |-> q.event,
     count |-> Cardinality(rows),
     uniqueUsers |-> Cardinality({ev[i].user_id : i \in rows} \ {NULL}),
     uniqueIps |-> Cardinality({ev[i].ip_address : i \in rows} \ {NULL}),
     deviceData |-> objectAgg(ev, order, "device"),
     browserData |-> objectAgg(ev, order, "browser"),
     osData |-> objectAgg(ev, order, "os")]

zeroSummary(q) ==
    [event |-> q.event, count |-> 0, uniqueUsers |-> 0, uniqueIps |-> 0,
     deviceData |-> EmptyMap, browserData |-> EmptyMap, osData |-> EmptyMap]

\* text.split(':'): a key is a template string, and a parameter that holds
\* ':' takes more than one segment of it
split(text) ==
    CASE text = "click:all" -> <<"click", "all">>
      [] text = "a:u2" -> <<"a", "u2">>
      [] OTHER -> <<text>>

\* as summaryCacheKey, without the account
summaryCacheKey_Unscoped(q, userId) ==
    <<"analytics", "summary">> \o split(q.event)
        \o <<IF q.startDate # NoTime THEN ISO(q.startDate) ELSE "all",
              IF q.endDate # NoTime THEN ISO(q.endDate) ELSE "all",
              IF q.app_id # NULL THEN q.app_id ELSE "all">>
\* `analytics:summary:${event}:${startDate||'all'}:${endDate||'all'}:${app_id||'all'}:${userId}`
summaryCacheKey(q, userId) ==
    <<"analytics", "summary">> \o split(q.event)
        \o <<IF q.startDate # NoTime THEN ISO(q.startDate) ELSE "all",
              IF q.endDate # NoTime THEN ISO(q.endDate) ELSE "all",
              IF q.app_id # NULL THEN q.app_id ELSE "all",
              userId>>

\* as optionalApiKey, the row attached whenever the secret is known
optionalApiKey_AnyRow(req) ==
    LET found == {n \in DOMAIN api_keys : api_keys[n].api_key = req.apiKey}
    IN  IF found = {} THEN req
        ELSE [req EXCEPT !.apiKeyData = api_keys[CHOOSE n \in found : TRUE].id]
\* optionalApiKey: the request as it is handed to next(); req.apiKeyData is
\* set when the lookup completes and returns a row
optionalApiKey(req) ==
    LET found == UsableRows(req.apiKey)
    IN  IF req.apiKey = NULL \/ req.apiKey = "" THEN req
        ELSE IF req.lookup # "ok" THEN req
        ELSE IF found = {} THEN req
        ELSE [req EXCEPT !.apiKeyData = api_keys[CHOOSE n \in found : TRUE].id]

\* schemas.eventSummaryQuery
eventSummaryQueryOk(q) ==
    /\ q.event # NULL /\ StrLen(q.event) >= 1 /\ StrLen(q.event) <= MaxNameLen
    /\ q.app_id = NULL \/ q.app_id \in Uuids

(***************************************************************************)
(* GET /api/analytics/event-summary:                                       *)
(*   apiLimiter, analyticsLimiter, optionalApiKey, isAuthenticated,        *)
(*   validateQuery(schemas.eventSummaryQuery), getEventSummary             *)
(* A request is a QueryReq record.                                         *)
(***************************************************************************)
getEventSummary(req) ==
    LET h0 == Elapse(hits, req.gap)
        c0 == Expire(cache, req.gap)
        h1 == [h0 EXCEPT !.api = Hit(h0.api, apiLimiterKey(req.remote), ApiMax)]
        h2 == [h1 EXCEPT !.analytics =
                   Hit(h1.analytics, apiLimiterKey(req.remote), AnalyticsMax)]
        q == req.q
        userId == req.session
        cacheKey == summaryCacheKey(q, userId)
        cached == cacheGet(c0, cacheKey, req.redisGet)
        rows == summaryRows(events, q, userId)
        r1 == optionalApiKey(req)
    IN
    /\ UNCHANGED <<now, issued, api_keys, events, tasks>>
    /\ IF OverLimit(h1.api, apiLimiterKey(req.remote), ApiMax)
       THEN /\ hits' = h1
            /\ resp' = Reply("summary", 429, "apiLimiter",
                             "Too many requests from this IP, please try again later.",
                             FALSE, NoData, req)
            /\ cache' = c0
       ELSE IF OverLimit(h2.analytics, apiLimiterKey(req.remote), AnalyticsMax)
       THEN /\ hits' = h2
            /\ resp' = Reply("summary", 429, "analyticsLimiter",
                             "Analytics query rate limit exceeded.", FALSE, NoData, req)
            /\ cache' = c0
       ELSE
       /\ hits' = h2
       /\ IF ~isAuthenticated(req.session)
          THEN /\ resp' = Reply("summary", 401, "isAuthenticated", AuthRequired, FALSE,
                                NoData, r1)
               /\ cache' = c0
          ELSE IF ~eventSummaryQueryOk(q)
          THEN /\ resp' = Reply("summary", 400, "validateQuery", "Validation error", FALSE,
                                NoData, r1)
               /\ cache' = c0
          ELSE IF cached.hit
          THEN /\ resp' = Reply("summary", 200, "getEventSummary", "", TRUE,
                                JSONparse(cached.text), r1)
               /\ cache' = c0
          ELSE IF req.db # "ok"
          THEN /\ resp' = Reply("summary", 500, "getEventSummary",
                                "Error retrieving event summary", FALSE, NoData, r1)
               /\ cache' = c0
          ELSE IF rows = {}
          THEN /\ resp' = Reply("summary", 200, "getEventSummary", "", FALSE,
                                zeroSummary(q), r1)
               /\ cache' = c0
          ELSE \E order \in Orders(rows) :
                 LET data == summaryData(events, q, rows, order)
                 IN  /\ cache' = cacheSet(c0, cacheKey, JSONstringify(data), SummaryTTL,
                                          req.redisSet)
                     /\ resp' = Reply("summary", 200, "getEventSummary", "", FALSE, data, r1)

(***************************************************************************)
(* The aggregation query of getUserStats.                                  *)
(***************************************************************************)
\* rows of FROM events e JOIN api_keys ak ... WHERE e.user_id = $1 AND ak.user_id = $2
\* as userRows, without "AND ak.user_id = $2"
userRows_AnyOwner(ev, userId, authenticatedUserId) ==
    {i \in DOMAIN ev : ev[i].user_id = userId /\ HasRow(ev[i].api_key_id)}
userRows(ev, userId, authenticatedUserId) ==
    {i \in DOMAIN ev :
        /\ ev[i].user_id = userId
        /\ HasRow(ev[i].api_key_id)
        /\ authenticatedUserId # NULL =>
               OwnerOf(ev[i].api_key_id) = authenticatedUserId}

\* the candidates of the lateral subquery for row i:
\* FROM events WHERE user_id = e.user_id AND api_key_id = e.api_key_id
recentCandidates(ev, i) ==
    {j \in DOMAIN ev :
        /\ ev[j].user_id = ev[i].user_id
        /\ ev[j].api_key_id = ev[i].api_key_id}

\* ORDER BY timestamp DESC LIMIT n: with ties at the cut, any of the tied rows
topByTimestamp(ev, S, n) ==
    IF Cardinality(S) <= n THEN {S}
    ELSE {T \in SUBSET S :
            /\ Cardinality(T) = n
            /\ \A a \in T, b \in S \ T : ev[a].timestamp >= ev[b].timestamp}

\* one result of the lateral subquery for every row
lateralPicks(ev, rows) ==
    LET top(i) == topByTimestamp(ev, recentCandidates(ev, i), RecentLimit)
    IN  {f \in [rows -> UNION {top(i) : i \in rows}] : \A i \in rows : f[i] \in top(i)}

\* SELECT api_key_id, user_id, device, COUNT(*) ... GROUP BY api_key_id, user_id, device
userDeviceCount(ev, apiKeyId, userId, device) ==
    Cardinality({j \in DOMAIN ev :
                    /\ ev[j].api_key_id = apiKeyId
                    /\ ev[j].user_id = userId
                    /\ ev[j].device = device})

\* json_object_agg(e.device, device_counts.count): for a device met under
\* several credentials the pair that comes last stays
userDeviceDetails(ev, rows) ==
    LET present == {ev[i].device : i \in rows} \ {NULL}
        candidates(d) == {userDeviceCount(ev, ev[i].api_key_id, ev[i].user_id, d) :
                             i \in {r \in rows : ev[r].device = d}}
    IN  {f \in [present -> 0..Len(ev)] : \A d \in present : f[d] \in candidates(d)}

RECURSIVE SortDesc(_)
SortDesc(S) ==
    IF S = {} THEN <<>>
    ELSE LET m == CHOOSE x \in S : \A y \in S : y <= x
         IN  <<m>> \o SortDesc(S \ {m})

recentEntry(ev, j) ==
    [event_name |-> ev[j].event_name, timestamp |-> ISO(ev[j].timestamp),
     url |-> ev[j].url]

\* json_agg(json_build_object(...) ORDER BY recent.timestamp DESC) over the
\* joined rows <<i, j>>, j among the rows the lateral subquery returns for i.
\* The list is kept as its runs of equal timestamp, newest first; a run is
\* the bag of its entries (SQL leaves the order inside a run open).
recentEvents(ev, join) ==
    LET stamps == SortDesc({ev[p[2]].timestamp : p \in join})
        run(t) == {p \in join : ev[p[2]].timestamp = t}
        entries(t) == {recentEntry(ev, p[2]) : p \in run(t)}
    IN  [n \in DOMAIN stamps |->
            [timestamp |-> ISO(stamps[n]),
             entries |-> [x \in entries(stamps[n]) |->
                             Cardinality({p \in run(stamps[n]) : recentEntry(ev, p[2]) = x})]]]

userStatsData(ev, userId, rows, pick, deviceDetails) ==
    LET join == {p \in rows \X DOMAIN ev : p[2] \in pick[p[1]]}
        stamps == {ev[i].timestamp : i \in rows}
    IN  [userId |-> userId,
         totalEvents |-> Cardinality(join),
         uniqueEvents |-> Cardinality({ev[i].event_name : i \in rows}),
         deviceDetails |-> deviceDetails,
         ipAddresses |-> {ev[i].ip_address : i \in rows} \ {NULL},
         lastEventAt |-> ISO(CHOOSE t \in stamps : \A u \in stamps : u <= t),
         firstEventAt |-> ISO(CHOOSE t \in stamps : \A u \in stamps : u >= t),
         recentEvents |-> recentEvents(ev, join)]

\* `analytics:user:${userId}:${authenticatedUserId}`
userCacheKey(userId, authenticatedUserId) ==
    <<"analytics", "user">> \o split(userId) \o <<authenticatedUserId>>

\* schemas.userStatsQuery
userStatsQueryOk(q) ==
    q.userId # NULL /\ StrLen(q.userId) >= 1 /\ StrLen(q.userId) <= MaxNameLen

(***************************************************************************)
(* GET /api/analytics/user-stats:                                          *)
(*   apiLimiter, analyticsLimiter, optionalApiKey, isAuthenticated,        *)
(*   validateQuery(schemas.userStatsQuery), getUserStats                   *)
(* A request is a QueryReq record.                                         *)
(***************************************************************************)
getUserStats(req) ==
    LET h0 == Elapse(hits, req.gap)
        c0 == Expire(cache, req.gap)
        h1 == [h0 EXCEPT !.api = Hit(h0.api, apiLimiterKey(req.remote), ApiMax)]
        h2 == [h1 EXCEPT !.analytics =
                   Hit(h1.analytics, apiLimiterKey(req.remote), AnalyticsMax)]
        userId == req.q.userId
        authenticatedUserId == req.session
        cacheKey == userCacheKey(userId, authenticatedUserId)
        cached == cacheGet(c0, cacheKey, req.redisGet)
        rows == userRows(events, userId, authenticatedUserId)
        r1 == optionalApiKey(req)
    IN
    /\ UNCHANGED <<now, issued, api_keys, events, tasks>>
    /\ IF OverLimit(h1.api, apiLimiterKey(req.remote), ApiMax)
       THEN /\ hits' = h1
            /\ resp' = Reply("userstats", 429, "apiLimiter",
                             "Too many requests from this IP, please try again later.",
                             FALSE, NoData, req)
            /\ cache' = c0
       ELSE IF OverLimit(h2.analytics, apiLimiterKey(req.remote), AnalyticsMax)
       THEN /\ hits' = h2
            /\ resp' = Reply("userstats", 429, "analyticsLimiter",
                             "Analytics query rate limit exceeded.", FALSE, NoData, req)
            /\ cache' = c0
       ELSE
       /\ hits' = h2
       /\ IF ~isAuthenticated(req.session)
          THEN /\ resp' = Reply("userstats", 401, "isAuthenticated", AuthRequired, FALSE,
                                NoData, r1)
               /\ cache' = c0
          ELSE IF ~userStatsQueryOk(req.q)
          THEN /\ resp' = Reply("userstats", 400, "validateQuery", "Validation error", FALSE,
                                NoData, r1)
               /\ cache' = c0
          ELSE IF cached.hit
          THEN /\ resp' = Reply("userstats", 200, "getUserStats", "", TRUE,
                                JSONparse(cached.text), r1)
               /\ cache' = c0
          ELSE IF req.db # "ok"
          THEN /\ resp' = Reply("userstats", 500, "getUserStats",
                                "Error retrieving user statistics", FALSE, NoData, r1)
               /\ cache' = c0
          ELSE IF rows = {}
          THEN /\ resp' = Reply("userstats", 404, "getUserStats",
                                "User not found or no events tracked", FALSE, NoData, r1)
               /\ cache' = c0
          ELSE \E pick \in lateralPicks(events, rows) :
               \E deviceDetails \in userDeviceDetails(events, rows) :
                 LET data == userStatsData(events, userId, rows, pick, deviceDetails)
                 IN  /\ cache' = cacheSet(c0, cacheKey, JSONstringify(data), UserTTL, req.redisSet)
                     /\ resp' = Reply("userstats", 200, "getUserStats", "", FALSE, data, r1)

(***************************************************************************)
(* getDashboard: three SELECTs over api_keys and events; nothing is        *)
(* written and nothing is cached.                                          *)
(***************************************************************************)
DefaultDays == 7
TopLimit == 10
NaN == -1

\* parseInt(days as string) of the query parameter, a decimal string here
parseInt(days) ==
    IF days = NULL THEN DefaultDays
    ELSE IF days = "0" THEN 0
    ELSE IF days = "1" THEN 1
    ELSE NaN

\* e.timestamp >= NOW() - INTERVAL 'd days'
InWindow(e, d) == e.timestamp >= now - d

\* FROM api_keys ak LEFT JOIN events e ON ak.id = e.api_key_id AND <window>
\* WHERE ak.user_id = $1 AND ak.is_active = true
dashboardStats(ev, userId, d) ==
    LET apps == {n \in DOMAIN api_keys :
                    api_keys[n].user_id = userId /\ api_keys[n].is_active}
        joined == {i \in DOMAIN ev :
                      /\ InWindow(ev[i], d)
                      /\ \E n \in apps : api_keys[n].id = ev[i].api_key_id}
    IN  [total_apps |-> Cardinality(apps),
         total_events |-> Cardinality(joined),
         unique_users |-> Cardinality({ev[i].user_id : i \in joined} \ {NULL}),
         active_days |-> Cardinality({ev[i].timestamp : i \in joined})]

\* FROM events e JOIN api_keys ak ON e.api_key_id = ak.id
\* WHERE ak.user_id = $1 AND <window>
dashboardRows(ev, userId, d) ==
    {i \in DOMAIN ev :
        /\ InWindow(ev[i], d)
        /\ HasRow(ev[i].api_key_id) /\ OwnerOf(ev[i].api_key_id) = userId}

\* GROUP BY e.event_name ORDER BY count DESC LIMIT 10: the possible sets of
\* rows (with ties at the cut, any of the tied groups)
topEvents(ev, rows) ==
    LET count(name) == Cardinality({i \in rows : ev[i].event_name = name})
        names == {ev[i].event_name : i \in rows}
        kept == IF Cardinality(names) <= TopLimit THEN {names}
                ELSE {T \in SUBSET names :
                        /\ Cardinality(T) = TopLimit
                        /\ \A a \in T, b \in names \ T : count(a) >= count(b)}
    IN  {{[event_name |-> name, count |-> count(name)] : name \in T} : T \in kept}

\* GROUP BY DATE(e.timestamp) ORDER BY date ASC
timeSeries(ev, rows) ==
    {[date |-> ISO(t), count |-> Cardinality({i \in rows : ev[i].timestamp = t})] :
        t \in {ev[i].timestamp : i \in rows}}

DashReq(gap, remote, session, days) ==
    [gap |-> gap, remote |-> remote, session |-> session, days |-> days]

getDashboard(req) ==
    LET h0 == Elapse(hits, req.gap)
        h1 == [h0 EXCEPT !.api = Hit(h0.api, apiLimiterKey(req.remote), ApiMax)]
        h2 == [h1 EXCEPT !.analytics =
                   Hit(h1.analytics, apiLimiterKey(req.remote), AnalyticsMax)]
        userId == req.session
        d == parseInt(req.days)
        rows == dashboardRows(events, userId, d)
    IN
    /\ UNCHANGED <<now, issued, api_keys, events, tasks>>
    /\ cache' = Expire(cache, req.gap)
    /\ IF OverLimit(h1.api, apiLimiterKey(req.remote), ApiMax)
       THEN /\ hits' = h1
            /\ resp' = Reply("dashboard", 429, "apiLimiter",
                             "Too many requests from this IP, please try again later.",
                             FALSE, NoData, req)
       ELSE IF OverLimit(h2.analytics, apiLimiterKey(req.remote), AnalyticsMax)
       THEN /\ hits' = h2
            /\ resp' = Reply("dashboard", 429, "analyticsLimiter",
                             "Analytics query rate limit exceeded.", FALSE, NoData, req)
       ELSE
       /\ hits' = h2
       /\ IF ~isAuthenticated(req.session)
          THEN resp' = Reply("dashboard", 401, "isAuthenticated", AuthRequired, FALSE,
                             NoData, req)
          ELSE IF d = NaN
          THEN resp' = Reply("dashboard", 500, "getDashboard",
                             "Error retrieving dashboard data", FALSE, NoData, req)
          ELSE \E top \in topEvents(events, rows) :
                 resp' = Reply("dashboard", 200, "getDashboard", "", FALSE,
                               [summary |-> dashboardStats(events, userId, d),
                                topEvents |-> top,
                                timeSeries |-> timeSeries(events, rows)], req)

(***************************************************************************)
(* Request values.                                                         *)
(***************************************************************************)
Sessions == Users \cup {NULL}
\* the accounts that have registered an application: the ones that query
Owners == {api_keys[n].user_id : n \in DOMAIN api_keys}
IssuedSecrets == {SecretOf(n) : n \in 1..issued}

Body(event, device, user_id) ==
    [event |-> event, url |-> NULL, referrer |-> NULL, device |-> device,
     ipAddress |-> NULL, timestamp |-> NoTime, metadata |-> NoMeta, user_id |-> user_id]

CollectReq(gap, remote, apiKey, userAgent, body, db) ==
    [gap |-> gap, remote |-> remote, apiKey |-> apiKey, userAgent |-> userAgent,
     xff |-> NoHeader, realIp |-> NULL, body |-> body, db |-> db]

(***************************************************************************)
(* SpecAuth: the credential lifecycle against ingestion.                   *)
(***************************************************************************)
NextAuth ==
    \/ Tick
    \/ Len(api_keys) < AuthKeys /\ registerApp("u1")
    \/ Len(api_keys) < AuthKeys /\ insertApiKey("u1")
    \/ \E id \in KeyIds : revokeApiKey("u1", id)
    \/ \E id \in KeyIds : regenerateApiKey("u1", id)
    \/ \E apiKey \in IssuedSecrets \cup {NULL, Bogus}, db \in {"ok", "lookupFails"} :
            /\ Len(events) < AuthEvents
            /\ collect(CollectReq("quarter", "10.0.0.1", apiKey, NULL,
                                   Body("click", NULL, NULL), db))
    \/ \E t \in tasks : runLastUsed(t, TRUE)
    \/ \E t \in tasks : runInvalidate(t, TRUE)

SpecAuth == Init /\ [][NextAuth]_vars

QueryReq(gap, remote, session, q, redisGet, redisSet, db) ==
    [gap |-> gap, remote |-> remote, session |-> session, q |-> q,
     redisGet |-> redisGet, redisSet |-> redisSet, db |-> db,
     apiKey |-> NULL, lookup |-> "ok", apiKeyData |-> NULL]
\* the same request carrying an X-API-Key header; lookup tells whether the
\* SELECT of optionalApiKey completes
WithApiKey(req, apiKey, lookup) == [req EXCEPT !.apiKey = apiKey, !.lookup = lookup]
SummaryQ(event, startDate, endDate, app_id) ==
    [event |-> event, startDate |-> startDate, endDate |-> endDate, app_id |-> app_id]
UserQ(userId) == [userId |-> userId]

(***************************************************************************)
(* SpecSummary: one account with one credential ingests events while the   *)
(* account repeats one event-summary query.                                *)
(***************************************************************************)
NextSummary ==
    \/ Len(api_keys) < 1 /\ insertApiKey("u1")
    \/ \E apiKey \in IssuedSecrets, event \in {"click", "view"}, user_id \in {NULL, "a", "b"} :
            /\ Len(events) < SumEvents
            /\ collect(CollectReq("none", "10.0.0.1", apiKey, "ChromeAndroid",
                               Body(event, NULL, user_id), "ok"))
    \/ \E session \in Owners :
            getEventSummary(QueryReq("none", "10.0.0.1", session,
                                     SummaryQ("click", NoTime, NoTime, NULL),
                                     TRUE, TRUE, "ok"))
    \/ \E t \in tasks : runLastUsed(t, TRUE)
    \/ \E t \in tasks : runInvalidate(t, TRUE)
    \/ \E key \in DOMAIN cache : cacheExpire(key)

SpecSummary == Init /\ [][NextSummary]_vars

(***************************************************************************)
(* SpecIsolation: two accounts, each with one credential, ingest events    *)
(* of one name and one end user; account u1 queries.                       *)
(***************************************************************************)
IsoEvents == 2       \* rows of events in SpecIsolation

ClientOf(apiKey) == IF apiKey = SecretOf(1) THEN "10.0.0.1" ELSE "10.0.0.2"
BrowserOf(apiKey) == IF apiKey = SecretOf(1) THEN "ChromeAndroid" ELSE "ChromeWindows"

NextIsolation ==
    \/ Len(api_keys) = 0 /\ insertApiKey("u1")
    \/ Len(api_keys) = 1 /\ insertApiKey("u2")
    \/ \E apiKey \in IssuedSecrets :
            /\ Len(events) < IsoEvents
            /\ collect(CollectReq("none", ClientOf(apiKey), apiKey, BrowserOf(apiKey),
                                   Body("click", NULL, "a"), "ok"))
    \/ \E session \in Owners \cap {"u1"}, app_id \in {NULL, KeyIdOf(1), KeyIdOf(2)} :
            getEventSummary(QueryReq("none", "10.0.0.9", session,
                                     SummaryQ("click", NoTime, NoTime, app_id),
                                     TRUE, TRUE, "ok"))
    \/ \E session \in Owners \cap {"u1"} :
            getUserStats(QueryReq("none", "10.0.0.9", session, UserQ("a"), TRUE, TRUE, "ok"))
    \/ \E t \in tasks : runLastUsed(t, TRUE)
    \/ \E t \in tasks : runInvalidate(t, TRUE)

SpecIsolation == Init /\ [][NextIsolation]_vars

(***************************************************************************)
(* SpecThrottle: one credential, used from two network addresses, with     *)
(* and without pauses between the requests.                                *)
(***************************************************************************)
ThrottleEvents == 1  \* rows of events in SpecThrottle

NextThrottle ==
    \/ Len(api_keys) < 1 /\ insertApiKey("u1")
    \/ \E gap \in Gaps, remote \in {"10.0.0.1", "10.0.0.2"}, apiKey \in IssuedSecrets,
          event \in {"click", ""} :
            /\ Len(events) < ThrottleEvents \/ event = ""
            /\ collect(CollectReq(gap, remote, apiKey, NULL, Body(event, NULL, NULL), "ok"))
    \/ \E t \in tasks : runLastUsed(t, TRUE)
    \/ \E t \in tasks : runInvalidate(t, TRUE)

SpecThrottle == Init /\ [][NextThrottle]_vars

(***************************************************************************)
(* SpecCollect: one credential; requests with and without client-supplied  *)
(* device, address and timestamp, signature and forwarding header, the     *)
(* insert and the last_used_at update failing at will.                     *)
(***************************************************************************)
CollectEvents == 1   \* rows of events in SpecCollect

FullBody(device, ipAddress, timestamp, tagged, metadata) ==
    [event |-> "click",
     url |-> IF tagged THEN "https://example.com" ELSE NULL,
     referrer |-> IF tagged THEN "https://google.com" ELSE NULL,
     device |-> device, ipAddress |-> ipAddress, timestamp |-> timestamp,
     metadata |-> metadata,
     user_id |-> IF tagged THEN "a" ELSE NULL]

\* the payloads: nothing but the name; one client-supplied value each;
\* everything supplied; a screen size too long for its column; metadata
\* with a userAgent key of the caller's own; a device class the schema
\* does not know
Payloads ==
    {FullBody(NULL, NULL, NoTime, FALSE, NoMeta),
     FullBody("tablet", NULL, NoTime, FALSE, NoMeta),
     FullBody("smart-tv", NULL, NoTime, FALSE, NoMeta),
     FullBody(NULL, "10.0.0.2", NoTime, FALSE, NoMeta),
     FullBody(NULL, NULL, 0, FALSE, NoMeta),
     FullBody("tablet", "10.0.0.2", 0, TRUE, [screenSize |-> "1920x1080"]),
     FullBody(NULL, NULL, NoTime, FALSE, [screenSize |-> LongSize]),
     FullBody(NULL, NULL, NoTime, FALSE, [userAgent |-> "spoofed", plan |-> "pro"])}

\* <<x-forwarded-for, socket address>>: a direct client, a client behind
\* proxies, a forged header, no address at all
Origins ==
    {<<NoHeader, "10.0.0.1">>,
     <<(<<"10.0.0.3", "10.0.0.1">>), "10.0.0.1">>,
     <<(<<"garbage">>), "10.0.0.1">>,
     <<NoHeader, NULL>>}

NextCollect ==
    \/ Tick
    \/ Len(api_keys) < 1 /\ insertApiKey("u1")
    \/ \E apiKey \in IssuedSecrets, userAgent \in {NULL, "SafariIPad"},
          origin \in Origins, body \in Payloads, db \in {"ok", "insertFails"} :
            /\ Len(events) < CollectEvents
            /\ db = "insertFails" => (userAgent = NULL /\ body.metadata = NoMeta)
            /\ collect([gap |-> "quarter", remote |-> origin[2], apiKey |-> apiKey,
                        userAgent |-> userAgent, xff |-> origin[1], realIp |-> NULL,
                        body |-> body, db |-> db])
    \/ \E t \in tasks, dbOk \in BOOLEAN : runLastUsed(t, dbOk)
    \/ \E t \in tasks : runInvalidate(t, TRUE)

SpecCollect == Init /\ [][NextCollect]_vars

(***************************************************************************)
(* SpecReject: one credential, revoked at some moment; collect requests    *)
(* with and without a usable secret and a valid event name, while the      *)
(* account's summary query fills the cache.                                *)
(***************************************************************************)
RejectEvents == 2    \* rows of events in SpecReject

NextReject ==
    \/ Len(api_keys) < 1 /\ insertApiKey("u1")
    \/ \E id \in KeyIds : HasRow(id) /\ revokeApiKey("u1", id)
    \/ \E apiKey \in IssuedSecrets \cup {NULL, Bogus},
          event \in {"click", "", LongName, NULL} :
            /\ Len(events) < RejectEvents
            /\ collect(CollectReq("none", "10.0.0.1", apiKey, "ChromeAndroid",
                                   Body(event, NULL, NULL), "ok"))
    \/ \E session \in Owners :
            getEventSummary(QueryReq("none", "10.0.0.9", session,
                                     SummaryQ("click", NoTime, NoTime, NULL),
                                     TRUE, TRUE, "ok"))
    \/ \E t \in tasks : runLastUsed(t, TRUE)
    \/ \E t \in tasks : runInvalidate(t, TRUE)

SpecReject == Init /\ [][NextReject]_vars

(***************************************************************************)
(* SpecCore: every operation of the core against one store: one account    *)
(* with one credential, its lifecycle, ingestion and the three queries.    *)
(***************************************************************************)
CoreEvents == 2      \* rows of events in SpecCore

NextCore ==
    \/ Tick
    \/ Len(api_keys) < 1 /\ registerApp("u1")
    \/ Len(api_keys) < 1 /\ insertApiKey("u1")
    \/ \E id \in KeyIds : HasRow(id) /\ revokeApiKey("u1", id)
    \/ \E id \in KeyIds : HasRow(id) /\ regenerateApiKey("u1", id)
    \/ \E apiKey \in IssuedSecrets :
            /\ Len(events) < CoreEvents
            /\ collect(CollectReq("quarter", "10.0.0.1", apiKey, "ChromeAndroid",
                                   Body("click", NULL, "a"), "ok"))
    \/ \E session \in Owners :
            getEventSummary(QueryReq("quarter", "10.0.0.9", session,
                                     SummaryQ("click", NoTime, NoTime, NULL),
                                     TRUE, TRUE, "ok"))
    \/ \E session \in Owners :
            getUserStats(QueryReq("quarter", "10.0.0.9", session, UserQ("a"),
                                  TRUE, TRUE, "ok"))
    \/ \E session \in Owners, days \in {NULL, "x"} :
            getDashboard(DashReq("quarter", "10.0.0.9", session, days))
    \/ \E t \in tasks : runLastUsed(t, TRUE)
    \/ \E t \in tasks : runInvalidate(t, TRUE)

SpecCore == Init /\ [][NextCore]_vars

(***************************************************************************)
(* SpecFaults: ingestion and the two cached queries while redis commands   *)
(* fail at will and entries disappear.                                     *)
(***************************************************************************)
FaultEvents == 2     \* rows of events in SpecFaults

NextFaults ==
    \/ Len(api_keys) < 1 /\ insertApiKey("u1")
    \/ \E apiKey \in IssuedSecrets :
            /\ Len(events) < FaultEvents
            /\ collect(CollectReq("minute", "10.0.0.1", apiKey, "ChromeAndroid",
                                   Body("click", NULL, "a"), "ok"))
    \/ \E session \in Owners, redisGet \in BOOLEAN, redisSet \in BOOLEAN :
            getEventSummary(QueryReq("minute", "10.0.0.9", session,
                                     SummaryQ("click", NoTime, NoTime, NULL),
                                     redisGet, redisSet, "ok"))
    \/ \E session \in Owners, redisGet \in BOOLEAN, redisSet \in BOOLEAN :
            getUserStats(QueryReq("minute", "10.0.0.8", session, UserQ("a"),
                                  redisGet, redisSet, "ok"))
    \/ \E t \in tasks : runLastUsed(t, TRUE)
    \/ \E t \in tasks, redisOk \in BOOLEAN : runInvalidate(t, redisOk)
    \/ \E key \in DOMAIN cache : cacheExpire(key)

SpecFaults == Init /\ [][NextFaults]_vars

(***************************************************************************)
(* SpecOptional: the two query routes called with and without a session,   *)
(* with and without an X-API-Key header, with complete and incomplete      *)
(* query parameters, while the credential is revoked or runs out.          *)
(***************************************************************************)
NextOptional ==
    \/ Tick
    \/ Len(api_keys) < 1 /\ registerApp("u1")
    \/ \E id \in KeyIds : HasRow(id) /\ revokeApiKey("u1", id)
    \/ \E session \in Sessions, apiKey \in IssuedSecrets \cup {NULL, Bogus},
          lookup \in {"ok", "fails"}, event \in {"click", NULL} :
            getEventSummary(WithApiKey(QueryReq("quarter", "10.0.0.9", session,
                                                SummaryQ(event, NoTime, NoTime, NULL),
                                                TRUE, TRUE, "ok"),
                                       apiKey, lookup))
    \/ \E session \in Sessions, apiKey \in IssuedSecrets \cup {NULL, Bogus},
          lookup \in {"ok", "fails"}, userId \in {"a", NULL} :
            getUserStats(WithApiKey(QueryReq("quarter", "10.0.0.9", session, UserQ(userId),
                                             TRUE, TRUE, "ok"),
                                    apiKey, lookup))

SpecOptional == Init /\ [][NextOptional]_vars

(***************************************************************************)
(* SpecEnrich: the two pure functions of utils/userAgent.ts, each applied  *)
(* once to an input drawn by the initial state.  A signature is one of the *)
(* named ones or any text given by the set of rule tokens it contains.     *)
(***************************************************************************)
AgentInputs ==
    {[fn |-> "parseUserAgent", userAgent |-> name, tokens |-> toLowerCase(name)] :
        name \in UAStrings}
    \cup {[fn |-> "parseUserAgent", userAgent |-> "", tokens |-> T] : T \in SUBSET Tokens}

ForwardedFor ==
    {NoHeader, <<"">>, <<" ">>, <<"10.0.0.1">>, <<" 10.0.0.1", "10.0.0.2">>,
     <<"", "10.0.0.2">>}

IpInputs ==
    {[fn |-> "extractIpAddress", xff |-> xff, realIp |-> realIp, remote |-> remote] :
        xff \in ForwardedFor, realIp \in {NULL, "", "10.0.0.2"}, remote \in {NULL, "10.0.0.3"}}

InitEnrich ==
    /\ now = 0 /\ issued = 0 /\ api_keys = <<>> /\ events = <<>>
    /\ cache = EmptyMap
    /\ hits = [api |-> EmptyMap, collect |-> EmptyMap, analytics |-> EmptyMap]
    /\ tasks = {}
    /\ \E input \in AgentInputs \cup IpInputs :
          resp = Reply("input", 0, "none", "", FALSE, NoData, input)

callParseUserAgent ==
    /\ resp.op = "input" /\ resp.req.fn = "parseUserAgent"
    /\ resp' = Reply("parseUserAgent", 0, "parseUserAgent", "", FALSE,
                     IF resp.req.userAgent \in UAStrings
                     THEN parseUserAgent(resp.req.userAgent)
                     ELSE parseTokens(resp.req.tokens),
                     resp.req)
    /\ UNCHANGED <<now, issued, api_keys, events, cache, hits, tasks>>

callExtractIpAddress ==
    /\ resp.op = "input" /\ resp.req.fn = "extractIpAddress"
    /\ resp' = Reply("extractIpAddress", 0, "extractIpAddress", "", FALSE,
                     [ip |-> extractIpAddress(resp.req.xff, resp.req.realIp, resp.req.remote)],
                     resp.req)
    /\ UNCHANGED <<now, issued, api_keys, events, cache, hits, tasks>>

NextEnrich == callParseUserAgent \/ callExtractIpAddress

SpecEnrich == InitEnrich /\ [][NextEnrich]_vars

(***************************************************************************)
(* SpecDownstream: one credential; ingestion from two addresses and the    *)
(* three query routes from a third, in quick succession and after a pause, *)
(* while the credential lookup and the database fail at will.              *)
(***************************************************************************)
DownEvents == 1      \* rows of events in SpecDownstream

NextDownstream ==
    \/ Len(api_keys) < 1 /\ insertApiKey("u1")
    \/ \E gap \in {"none", "quarter"}, remote \in {"10.0.0.1", "10.0.0.2"},
          apiKey \in IssuedSecrets, db \in {"ok", "lookupFails"} :
            /\ Len(events) < DownEvents \/ db = "lookupFails"
            /\ collect(CollectReq(gap, remote, apiKey, NULL, Body("click", NULL, "a"), db))
    \/ \E session \in Owners, db \in {"ok", "fails"} :
            getEventSummary(QueryReq("none", "10.0.0.9", session,
                                     SummaryQ("click", NoTime, NoTime, NULL),
                                     TRUE, TRUE, db))
    \/ \E session \in Owners :
            getUserStats(QueryReq("none", "10.0.0.9", session, UserQ("a"),
                                  TRUE, TRUE, "ok"))
    \/ \E session \in Owners :
            getDashboard(DashReq("none", "10.0.0.9", session, NULL))
    \/ \E t \in tasks : runLastUsed(t, TRUE)
    \/ \E t \in tasks : runInvalidate(t, TRUE)

SpecDownstream == Init /\ [][NextDownstream]_vars

(***************************************************************************)
(* Requests in flight.  A limiter of express-rate-limit is an async        *)
(* middleware: it awaits store.increment(key), and decides on the          *)
(* totalHits the store returned once the promise resolves; the store, no   *)
(* store option being given, is the MemoryStore of the server process,     *)
(* whose increment runs to completion on the one JavaScript thread.        *)
(* Between the increment and the decision other requests run.  A pending   *)
(* limiter is a promise among tasks.                                       *)
(***************************************************************************)
InFlight == 7        \* requests in one window in SpecRace

LimiterTask(limiter, req, totalHits) ==
    [type |-> "limiter", id |-> limiter, ev |-> 0, req |-> req, totalHits |-> totalHits]

\* requests that have reached the first limiter
Arrived == HitsOf(hits.api, "10.0.0.1") + HitsOf(hits.api, "10.0.0.2")

\* as incrementResult, the count read before the request's own hit
incrementResult_Stale(store, key) == HitsOf(store, key) - 1
\* totalHits of store.increment(key): the count with the request's own hit
incrementResult(store, key) == HitsOf(store, key)

\* the request reaches app.use('/api/', apiLimiter): the limiter increments
\* its store and awaits the result
arrive(req) ==
    LET key == apiLimiterKey(req.remote)
        store == Hit(hits.api, key, InFlight)
    IN  /\ Arrived < InFlight
        /\ hits' = [hits EXCEPT !.api = store]
        /\ tasks' = tasks \cup {LimiterTask("apiLimiter", req, incrementResult(store, key))}
        /\ resp' = NoResp
        /\ UNCHANGED <<now, issued, api_keys, events, cache>>

\* apiLimiter resumes: 429, or next() into eventCollectionLimiter, which
\* increments its store and awaits the result
resumeApiLimiter(t) ==
    LET key == keyGenerator(t.req.apiKey, t.req.remote)
        store == Hit(hits.collect, key, InFlight)
    IN  /\ t \in tasks /\ t.type = "limiter" /\ t.id = "apiLimiter"
        /\ IF t.totalHits > ApiMax
           THEN /\ resp' = Reply("collect", 429, "apiLimiter",
                                 "Too many requests from this IP, please try again later.",
                                 FALSE, NoData, t.req)
                /\ tasks' = tasks \ {t}
                /\ hits' = hits
           ELSE /\ resp' = NoResp
                /\ hits' = [hits EXCEPT !.collect = store]
                /\ tasks' = (tasks \ {t}) \cup
                            {LimiterTask("eventCollectionLimiter", t.req,
                                         incrementResult(store, key))}
        /\ UNCHANGED <<now, issued, api_keys, events, cache>>

\* eventCollectionLimiter resumes: 429, or next() into validateApiKey,
\* the validator and collectEvent
resumeCollectionLimiter(t) ==
    /\ t \in tasks /\ t.type = "limiter" /\ t.id = "eventCollectionLimiter"
    /\ IF t.totalHits > CollectMax
       THEN /\ resp' = Reply("collect", 429, "eventCollectionLimiter",
                             "Event collection rate limit exceeded.", FALSE, NoData, t.req)
            /\ tasks' = tasks \ {t}
            /\ events' = events
       ELSE collectPipeline(t.req, tasks \ {t})
    /\ UNCHANGED <<now, issued, api_keys, cache, hits>>

(***************************************************************************)
(* SpecRace: one credential, used from two addresses within one window;    *)
(* the requests overlap in every way the event loop allows.  The stores    *)
(* count every hit of the window (Hit with the number of requests as its   *)
(* ceiling).                                                               *)
(***************************************************************************)
RaceRemotes == {"10.0.0.1", "10.0.0.2"}

NextRace ==
    \/ Len(api_keys) < 1 /\ insertApiKey("u1")
    \/ \E remote \in RaceRemotes, apiKey \in IssuedSecrets :
            arrive(CollectReq("none", remote, apiKey, NULL, Body("click", NULL, "a"), "ok"))
    \/ \E t \in tasks : resumeApiLimiter(t)
    \/ \E t \in tasks : resumeCollectionLimiter(t)

SpecRace == Init /\ [][NextRace]_vars

(***************************************************************************)
(* getEventSummary in flight.  The controller awaits cacheGet, then the    *)
(* aggregation query, then cacheSet; other requests run while it waits.    *)
(* A controller that holds the result of its query and has not yet called  *)
(* cacheSet is a promise among tasks.                                      *)
(***************************************************************************)
SummaryTask(req, data) ==
    [type |-> "summary", id |-> req.session, ev |-> 0, req |-> req, data |-> data]

\* the request gets as far as the result of its aggregation query
computesSummary(req) ==
    /\ ~OverLimit(Hit(hits.api, apiLimiterKey(req.remote), ApiMax),
                  apiLimiterKey(req.remote), ApiMax)
    /\ ~OverLimit(Hit(hits.analytics, apiLimiterKey(req.remote), AnalyticsMax),
                  apiLimiterKey(req.remote), AnalyticsMax)
    /\ isAuthenticated(req.session)
    /\ eventSummaryQueryOk(req.q)
    /\ ~cacheGet(cache, summaryCacheKey(req.q, req.session), req.redisGet).hit
    /\ req.db = "ok"
    /\ summaryRows(events, req.q, req.session) # {}

\* the throttles, the session check, the validator, the cache miss and the
\* query of a request that arrives within the windows
summaryQuery(req) ==
    LET rows == summaryRows(events, req.q, req.session)
    IN  /\ req.gap = "none"
        /\ computesSummary(req)
        /\ hits' = [hits EXCEPT
                      !.api = Hit(hits.api, apiLimiterKey(req.remote), ApiMax),
                      !.analytics = Hit(hits.analytics, apiLimiterKey(req.remote),
                                        AnalyticsMax)]
        /\ \E order \in Orders(rows) :
             tasks' = tasks \cup
                        {SummaryTask(optionalApiKey(req),
                                     summaryData(events, req.q, rows, order))}
        /\ resp' = NoResp
        /\ UNCHANGED <<now, issued, api_keys, events, cache>>

\* await cacheSet(cacheKey, JSON.stringify(data), 300); res.json(...)
summaryStore(t) ==
    /\ t \in tasks /\ t.type = "summary"
    /\ tasks' = tasks \ {t}
    /\ cache' = cacheSet(cache, summaryCacheKey(t.req.q, t.req.session),
                         JSONstringify(t.data), SummaryTTL, t.req.redisSet)
    /\ resp' = Reply("summary", 200, "getEventSummary", "", FALSE, t.data, t.req)
    /\ UNCHANGED <<now, issued, api_keys, events, hits>>

(***************************************************************************)
(* SpecStale: one account with one credential ingests events of one name   *)
(* while the account's event-summary queries overlap with the writes.      *)
(***************************************************************************)
StaleEvents == 2     \* rows of events in SpecStale

NextStale ==
    \/ Len(api_keys) < 1 /\ insertApiKey("u1")
    \/ \E gap \in {"none", "minute"}, apiKey \in IssuedSecrets, user_id \in {"a", "b"} :
            /\ Len(events) < StaleEvents
            /\ collect(CollectReq(gap, "10.0.0.1", apiKey, "ChromeAndroid",
                                   Body("click", NULL, user_id), "ok"))
    \/ \E session \in Owners :
            summaryQuery(QueryReq("none", "10.0.0.9", session,
                                  SummaryQ("click", NoTime, NoTime, NULL),
                                  TRUE, TRUE, "ok"))
    \/ \E t \in tasks : summaryStore(t)
    \/ \E session \in Owners, gap \in {"none", "minute"} :
            getEventSummary(QueryReq(gap, "10.0.0.9", session,
                                     SummaryQ("click", NoTime, NoTime, NULL),
                                     TRUE, TRUE, "ok"))
    \/ \E t \in tasks : runLastUsed(t, TRUE)
    \/ \E t \in tasks : runInvalidate(t, TRUE)
    \/ \E key \in DOMAIN cache : cacheExpire(key)

SpecStale == Init /\ [][NextStale]_vars

(***************************************************************************)
(* SpecLive: one credential and its ingestion with the database and redis  *)
(* available.  A detached promise that can run does run: the event loop    *)
(* resolves every pending query and every pending redis command.           *)
(***************************************************************************)
LiveEvents == 2      \* rows of events in SpecLive

NextLive ==
    \/ Tick
    \/ Len(api_keys) < 1 /\ insertApiKey("u1")
    \/ \E apiKey \in IssuedSecrets \cup {Bogus}, event \in {"click", ""} :
            /\ Len(events) < LiveEvents
            /\ collect(CollectReq("quarter", "10.0.0.1", apiKey, NULL,
                                   Body(event, NULL, NULL), "ok"))
    \/ \E t \in tasks : runLastUsed(t, TRUE)
    \/ \E t \in tasks : runInvalidate(t, TRUE)

PromisesRun ==
    /\ \A id \in KeyIds : WF_vars(runLastUsed(LastUsedTask(id), TRUE))
    /\ \A id \in KeyIds : \A ev \in 1..LiveEvents :
            WF_vars(runInvalidate(InvalidateTask(id, ev), TRUE))

SpecLive == Init /\ [][NextLive]_vars /\ PromisesRun

(***************************************************************************)
(* SpecOwner: two accounts with one credential each; either account calls  *)
(* revoke and regenerate with its own id, the other account's id, a uuid   *)
(* no row has, and a text that is no uuid.                                 *)
(***************************************************************************)
TargetIds == {KeyIdOf(1), KeyIdOf(2), KeyIdOf(4), "123"}

NextOwner ==
    \/ Tick
    \/ \E user \in Users \ Owners : insertApiKey(user)
    \/ \E session \in Users, id \in TargetIds : revokeApiKey(session, id)
    \/ \E session \in Users, id \in TargetIds : regenerateApiKey(session, id)

SpecOwner == Init /\ [][NextOwner]_vars

(***************************************************************************)
(* SpecTenants: two accounts with one credential each ingest events whose  *)
(* name and end-user id hold ':' and a word the keys are made of; both     *)
(* accounts query summaries and user statistics, for these names and for   *)
(* their prefixes, from their own address.                                 *)
(***************************************************************************)
TenantEvents == 2    \* rows of events in SpecTenants

TenantNames == {"click", "click:all"}
TenantEndUsers == {"a", "a:u2"}

NextTenants ==
    \/ \E user \in Users \ Owners : insertApiKey(user)
    \/ \E apiKey \in IssuedSecrets :
            /\ Len(events) < TenantEvents
            /\ collect(CollectReq("minute", ClientOf(apiKey), apiKey, BrowserOf(apiKey),
                                   Body("click:all", NULL, "a:u2"), "ok"))
    \/ \E session \in Owners, event \in TenantNames :
            getEventSummary(QueryReq("minute", IF session = "u1" THEN "10.0.0.8" ELSE "10.0.0.9", session,
                                     SummaryQ(event, NoTime, NoTime, NULL),
                                     TRUE, TRUE, "ok"))
    \/ \E session \in Owners, userId \in TenantEndUsers :
            getUserStats(QueryReq("minute", IF session = "u1" THEN "10.0.0.8" ELSE "10.0.0.9", session, UserQ(userId),
                                  TRUE, TRUE, "ok"))

SpecTenants == Init /\ [][NextTenants]_vars

(***************************************************************************)
(* collect with its awaits: validateApiKey's SELECT is one statement, the  *)
(* INSERT of collectEvent another, and other requests run between them.    *)
(***************************************************************************)
ValidatedTask(req, apiKeyData) ==
    [type |-> "validated", id |-> apiKeyData.id, ev |-> 0, req |-> req]

\* the throttles and validateApiKey up to the answer of its SELECT, for a
\* collect request that arrives within the windows and is not throttled
validateKey(req) ==
    LET key == keyGenerator(req.apiKey, req.remote)
        h2 == [hits EXCEPT !.api = Hit(hits.api, apiLimiterKey(req.remote), ApiMax),
                           !.collect = Hit(hits.collect, key, CollectMax)]
        found == UsableRows(req.apiKey)
    IN  /\ req.gap = "none" /\ req.db = "ok"
        /\ ~OverLimit(h2.api, apiLimiterKey(req.remote), ApiMax)
        /\ ~OverLimit(h2.collect, key, CollectMax)
        /\ hits' = h2
        /\ IF req.apiKey = NULL \/ req.apiKey = ""
           THEN /\ resp' = Reply("collect", 401, "validateApiKey", KeyRequired, FALSE, NoData,
                                 req)
                /\ UNCHANGED tasks
           ELSE IF found = {}
           THEN /\ resp' = Reply("collect", 401, "validateApiKey", KeyInvalid, FALSE, NoData,
                                 req)
                /\ UNCHANGED tasks
           ELSE /\ tasks' = tasks \cup
                              {ValidatedTask(req, api_keys[CHOOSE n \in found : TRUE])}
                /\ resp' = NoResp
        /\ UNCHANGED <<now, issued, api_keys, events, cache>>

\* the rest of validateApiKey (the last_used_at promise, req.apiKeyData,
\* next()), validate(collectEventSchema) and collectEvent, with the row the
\* SELECT returned
insertValidated(t) ==
    LET row == EventRow(t.id, t.req)
        ts == (tasks \ {t}) \cup {LastUsedTask(t.id)}
    IN  /\ t \in tasks /\ t.type = "validated"
        /\ IF ~collectEventSchemaOk(t.req.body)
           THEN /\ resp' = Reply("collect", 400, "validate", "Validation error", FALSE, NoData,
                                 t.req)
                /\ tasks' = ts
                /\ UNCHANGED events
           ELSE IF ~InsertAccepted(row)
           THEN /\ resp' = Reply("collect", 500, "collectEvent", "Error collecting event",
                                 FALSE, NoData, t.req)
                /\ tasks' = ts
                /\ UNCHANGED events
           ELSE /\ Len(events) < MaxEvents
                /\ events' = insertEvent(events, row)
                /\ tasks' = issueInvalidation(ts, t.id, Len(events) + 1)
                /\ resp' = Reply("collect", 201, "collectEvent",
                                 "Event collected successfully", FALSE,
                                 [id |-> Len(events) + 1, created_at |-> now], t.req)
        /\ UNCHANGED <<now, issued, api_keys, cache, hits>>

(***************************************************************************)
(* SpecRevoke: an owner revokes a credential while collect requests with   *)
(* it are between their validation and their insert.                       *)
(***************************************************************************)
RevokeEvents == 1    \* rows of events in SpecRevoke

NextRevoke ==
    \/ \E user \in Users \ Owners : insertApiKey(user)
    \/ \E apiKey \in IssuedSecrets, event \in {"click"} :
            validateKey(CollectReq("none", ClientOf(apiKey), apiKey, BrowserOf(apiKey),
                                   Body(event, NULL, "a"), "ok"))
    \/ \E t \in tasks : Len(events) < RevokeEvents /\ insertValidated(t)
    \/ \E session \in Owners, id \in KeyIds : revokeApiKey(session, id)
    \/ \E t \in tasks : runLastUsed(t, TRUE)
    \/ \E t \in tasks : runInvalidate(t, TRUE)

SpecRevoke == Init /\ [][NextRevoke]_vars

(***************************************************************************)
(* Claims.                                                                 *)
(***************************************************************************)
Throttles == {"apiLimiter", "eventCollectionLimiter", "analyticsLimiter"}
PastValidator == {"validate", "collectEvent"}

\* the usability condition of the data model, for a presented secret
CredentialUsable(secret) ==
    \E n \in DOMAIN api_keys :
        /\ api_keys[n].api_key = secret
        /\ api_keys[n].is_active = TRUE
        /\ (api_keys[n].expires_at = NoTime \/ api_keys[n].expires_at > now)

C1_StatePart ==
    (resp.op = "collect" /\ resp.by \notin Throttles) =>
        /\ resp.by \in PastValidator => CredentialUsable(resp.req.apiKey)
        /\ (CredentialUsable(resp.req.apiKey) /\ resp.req.db # "lookupFails")
               => resp.by \in PastValidator
        /\ (~CredentialUsable(resp.req.apiKey) /\ resp.req.db # "lookupFails")
               => (resp.status = 401 /\ resp.by = "validateApiKey")
        /\ resp.by = "validateApiKey" => resp.status \in {401, 500}

C1_StepPart ==
    (resp'.op = "collect" /\ resp'.by = "validateApiKey") =>
        (events' = events /\ tasks' = tasks)

\* C1: validateApiKey passes a collect request on if and only if a row of
\* api_keys holds exactly the presented secret, is active and has no expiry
\* or an expiry later than now (the lookup having completed); every other
\* request it answers itself, with 401, and the request leaves the events
\* table and the detached tasks as they were.
C1_ValidatorAdmitsIffUsable == [](C1_StatePart) /\ [][C1_StepPart]_vars

\* a known, active secret is refused at the very instant of its expiry
C1_Witness ==
    /\ resp.op = "collect" /\ resp.status = 401 /\ resp.by = "validateApiKey"
    /\ \E n \in DOMAIN api_keys :
          /\ api_keys[n].api_key = resp.req.apiKey
          /\ api_keys[n].is_active
          /\ api_keys[n].expires_at = now

(***************************************************************************)
(* Claims about the event summary (SpecSummary).                           *)
(***************************************************************************)
SummaryAnswer == resp.op = "summary" /\ resp.by = "getEventSummary" /\ resp.status = 200
NoInvalidationPending == \A t \in tasks : t.type # "invalidate"

\* the events an event-summary query is about: same name, in the caller's
\* scope, narrowed by credential and date range when the query gives them
Matching(q, account) ==
    {i \in DOMAIN events :
        /\ events[i].event_name = q.event
        /\ \E n \in DOMAIN api_keys :
              api_keys[n].id = events[i].api_key_id /\ api_keys[n].user_id = account
        /\ q.app_id = NULL \/ events[i].api_key_id = q.app_id
        /\ q.startDate = NoTime \/ events[i].timestamp >= q.startDate
        /\ q.endDate = NoTime \/ events[i].timestamp <= q.endDate}

\* C2: once every cache invalidation issued by collectEvent has run, an
\* event-summary answer reflects the current count of the store (an entry
\* cached before the write is gone, so the read is computed afresh).
C2_ReadAfterInvalidationIsFresh ==
    (SummaryAnswer /\ NoInvalidationPending) =>
        resp.data.count = Cardinality(Matching(resp.req.q, resp.req.session))

\* C4: an uncached event-summary answer without date range has count = the
\* number of events of that name in the caller's scope and uniqueUsers =
\* the number of distinct non-null user_id values among them.
C4_CountAndUniqueUsers ==
    (SummaryAnswer /\ ~resp.cached
        /\ resp.req.q.startDate = NoTime /\ resp.req.q.endDate = NoTime) =>
        LET named == Matching(resp.req.q, resp.req.session)
        IN  /\ resp.data.count = Cardinality(named)
            /\ resp.data.uniqueUsers =
                  Cardinality({events[i].user_id : i \in named} \ {NULL})

\* three events of one name counted, one of them without user_id and the
\* other two of different end users
C4_Witness ==
    /\ SummaryAnswer /\ ~resp.cached
    /\ resp.data.count = 3 /\ resp.data.uniqueUsers = 2
    /\ \E i \in Matching(resp.req.q, resp.req.session) : events[i].user_id = NULL

ValueAt(map, k) == IF k \in DOMAIN map THEN map[k] ELSE 0

\* C5: in an uncached event-summary answer deviceData[d], browserData[b]
\* and osData[o] are the numbers of matching events with that device,
\* browser and OS (events of another name or outside the range do not count).
C5_BreakdownCountsMatchingEvents ==
    (SummaryAnswer /\ ~resp.cached) =>
        LET rows == Matching(resp.req.q, resp.req.session)
            n(f, v) == Cardinality({i \in rows : events[i][f] = v})
        IN  /\ \A d \in DeviceClasses :
                  ValueAt(resp.data.deviceData, d) = n("device", d)
            /\ \A b \in {"Chrome", "Safari", "Firefox", "Edge", "Opera", "Unknown"} :
                  ValueAt(resp.data.browserData, b) = n("browser", b)
            /\ \A o \in {"Windows", "macOS", "Linux", "Android", "iOS", "Unknown"} :
                  ValueAt(resp.data.osData, o) = n("os", o)

\* C6: a query just answered with 200, issued again at once (no write in
\* between, the entry's TTL running), can only be answered cached = true
\* with the same data.
C6_RepeatedQueryIsCached ==
    SummaryAnswer =>
        ~ENABLED (/\ getEventSummary(resp.req)
                  /\ ~(resp'.cached /\ resp'.data = resp.data))

(***************************************************************************)
(* Claims about tenant isolation (SpecIsolation).                          *)
(***************************************************************************)
OwnedBy(account, e) ==
    \E n \in DOMAIN api_keys :
        api_keys[n].id = e.api_key_id /\ api_keys[n].user_id = account

\* the first n events, without those of other accounts
OwnEvents(account, n) ==
    SelectSeq(SubSeq(events, 1, n), LAMBDA e : OwnedBy(account, e))

\* every event summary / user statistics result the account's own events give
SummaryOver(ev, q, account) ==
    LET rows == summaryRows(ev, q, account)
    IN  IF rows = {} THEN {zeroSummary(q)}
        ELSE {summaryData(ev, q, rows, order) : order \in Orders(rows)}

UserStatsOver(ev, userId, account) ==
    LET rows == userRows(ev, userId, account)
    IN  IF rows = {} THEN {}
        ELSE UNION {{userStatsData(ev, userId, rows, pick, dd) :
                        dd \in userDeviceDetails(ev, rows)} :
                            pick \in lateralPicks(ev, rows)}

ForeignCredential(account, id) == HasRow(id) /\ OwnerOf(id) # account

\* C3: what getEventSummary and getUserStats answer to account A is a
\* function of the events owned by A alone: the answer is the one computed
\* from A's own events (all of them when computed now, those present at
\* some earlier moment when served from the cache), a user-statistics 404
\* means A owns no event of that end user, and an app_id that belongs to
\* another account gives the zero-valued summary.
C3_AnswersDependOnOwnEventsOnly ==
    LET A == resp.req.session
        q == resp.req.q
        sizes == IF resp.cached THEN 0..Len(events) ELSE {Len(events)}
    IN  /\ SummaryAnswer =>
              /\ \E n \in sizes : resp.data \in SummaryOver(OwnEvents(A, n), q, A)
              /\ ForeignCredential(A, q.app_id) => resp.data = zeroSummary(q)
        /\ (resp.op = "userstats" /\ resp.by = "getUserStats" /\ resp.status = 200) =>
              \E n \in sizes : resp.data \in UserStatsOver(OwnEvents(A, n), q.userId, A)
        /\ (resp.op = "userstats" /\ resp.by = "getUserStats" /\ resp.status = 404) =>
              userRows(OwnEvents(A, Len(events)), q.userId, A) = {}

\* the other account holds an event of the queried end user, and A is
\* answered from its own
C3_Witness ==
    /\ resp.op = "userstats" /\ resp.by = "getUserStats" /\ resp.status = 200
    /\ ~resp.cached
    /\ resp.data.totalEvents >= 1
    /\ \E i \in DOMAIN events :
          /\ ~OwnedBy(resp.req.session, events[i])
          /\ events[i].user_id = resp.req.q.userId

\* A asks for the credential of the other account, which holds events
C3_WitnessForeignApp ==
    /\ SummaryAnswer
    /\ ForeignCredential(resp.req.session, resp.req.q.app_id)
    /\ \E i \in DOMAIN events : events[i].api_key_id = resp.req.q.app_id

(***************************************************************************)
(* Claims about the throttles (SpecThrottle).                              *)
(***************************************************************************)
\* the count the ingestion throttle holds for the secret of the request
\* answered in the next state, before that request: that of the running
\* window, or nothing when the window has elapsed
CountBefore ==
    IF resp'.req.gap = "none"
    THEN HitsOf(hits.collect, keyGenerator(resp'.req.apiKey, resp'.req.remote))
    ELSE 0

C7_Step ==
    (resp'.op = "collect" /\ resp'.by # "apiLimiter") =>
        /\ (resp'.status = 429 /\ resp'.by = "eventCollectionLimiter")
               <=> CountBefore >= CollectMax
        /\ resp'.req.gap # "none" => resp'.status # 429
        /\ HitsOf(hits'.collect, keyGenerator(resp'.req.apiKey, resp'.req.remote))
               = Min(CountBefore + 1, CollectMax + 1)

\* C7: of the collect requests that carry one secret and reach the
\* ingestion throttle inside one window, the first CollectMax are let
\* through and the next is answered 429; a request with that secret made
\* after the window has elapsed is let through, counted as the first of a
\* new window.
C7_BudgetThenResetAtWindowBoundary == [][C7_Step]_vars

\* the request after the budget is used up, refused
C7_Witness ==
    /\ resp.op = "collect" /\ resp.status = 429 /\ resp.by = "eventCollectionLimiter"
    /\ HitsOf(hits.collect, resp.req.apiKey) = CollectMax + 1

\* C8: a collect request that carries a secret is not answered 429 while
\* the count of the ingestion throttle for that secret is within budget.
C8_NoRateLimitWithinCredentialBudget ==
    (resp.op = "collect" /\ resp.req.apiKey # NULL
        /\ HitsOf(hits.collect, resp.req.apiKey) <= CollectMax) =>
        resp.status # 429

(***************************************************************************)
(* Claims about the event writer (SpecCollect).                            *)
(***************************************************************************)
\* C9: a collect request with a usable credential and a schema-valid
\* payload, storage being available, is answered 201 with the id and
\* created_at of a new row of events owned by that credential.
C9_ValidRequestIsPersisted ==
    (resp.op = "collect" /\ resp.by \notin Throttles
        /\ CredentialUsable(resp.req.apiKey)
        /\ collectEventSchemaOk(resp.req.body)
        /\ resp.req.db = "ok") =>
        /\ resp.status = 201
        /\ resp.data.id = Len(events)
        /\ resp.data.created_at = events[Len(events)].created_at
        /\ \E n \in DOMAIN api_keys :
              /\ api_keys[n].api_key = resp.req.apiKey
              /\ api_keys[n].id = events[Len(events)].api_key_id

\* C10: the row persisted for a request answered 201 holds the submitted
\* event name, url, referrer and user_id, the client's device, address and
\* timestamp where the payload has them, and otherwise the device class of
\* the signature, the address resolved from the request and the time of
\* receipt.
C10_PersistedFieldsFollowTheRequest ==
    (resp.op = "collect" /\ resp.status = 201) =>
        LET e == events[resp.data.id]
            r == resp.req
            body == r.body
            signature == IF r.userAgent = NULL THEN "unknown" ELSE r.userAgent
        IN  /\ e.event_name = body.event
            /\ e.url = body.url
            /\ e.referrer = body.referrer
            /\ e.user_id = body.user_id
            /\ e.device = IF body.device # NULL THEN body.device
                          ELSE parseUserAgent(signature).device
            /\ e.ip_address = IF body.ipAddress # NULL THEN body.ipAddress
                              ELSE extractIpAddress(r.xff, r.realIp, r.remote)
            /\ e.timestamp = IF body.timestamp # NoTime THEN body.timestamp
                             ELSE resp.data.created_at

\* a request behind proxies whose signature parses as mobile, overridden by
\* the client's device, address and earlier timestamp
C10_Witness ==
    /\ resp.op = "collect" /\ resp.status = 201
    /\ resp.req.xff # NoHeader
    /\ parseUserAgent(resp.req.userAgent).device = "mobile"
    /\ resp.req.body.device = "tablet" /\ events[resp.data.id].device = "tablet"
    /\ events[resp.data.id].ip_address = "10.0.0.2"
    /\ events[resp.data.id].timestamp < events[resp.data.id].created_at

(***************************************************************************)
(* Claims about rejected collect requests (SpecReject, SpecAuth).          *)
(***************************************************************************)
Invalidations(ts) == {t \in ts : t.type = "invalidate"}
BadName(event) == event = NULL \/ event = "" \/ event = LongName

C11_Step ==
    (resp'.op = "collect" /\ resp'.by \notin Throttles) =>
        /\ (CredentialUsable(resp'.req.apiKey) /\ BadName(resp'.req.body.event))
               => resp'.status = 400
        /\ ~CredentialUsable(resp'.req.apiKey) => resp'.status = 401
        /\ resp'.status \in {400, 401} =>
               /\ events' = events
               /\ cache' = cache
               /\ Invalidations(tasks') = Invalidations(tasks)

\* C11: a collect request whose event name is missing, empty or longer
\* than 255 characters is answered 400, one whose credential is rejected
\* 401, and a request answered 400 or 401 leaves the events table and the
\* cache as they were and issues no cache invalidation.
C11_RejectedRequestChangesNothing == [][C11_Step]_vars

\* an over-long event name refused while the store holds an event and the
\* cache an entry
C11_Witness ==
    /\ resp.op = "collect" /\ resp.status = 400
    /\ resp.req.body.event = LongName
    /\ Len(events) > 0 /\ DOMAIN cache # {}

RejectedByValidator(r) ==
    r.op = "collect" /\ r.by = "validateApiKey" /\ r.status = 401
Presented(r) == r.req.apiKey # NULL /\ r.req.apiKey # ""

EventsOfUser(u, account) ==
    {i \in DOMAIN events : events[i].user_id = u /\ OwnedBy(account, events[i])}

\* C13: an event-summary query whose filters match no event is answered
\* 200 with count 0, uniqueUsers 0, uniqueIps 0 and empty breakdowns; a
\* user-stats query for an end user without an event in the caller's scope
\* is answered 404.
C13_NoDataAnswers ==
    /\ (resp.op = "summary" /\ resp.by = "getEventSummary"
            /\ Matching(resp.req.q, resp.req.session) = {}) =>
          /\ resp.status = 200
          /\ resp.data = [event |-> resp.req.q.event, count |-> 0, uniqueUsers |-> 0,
                          uniqueIps |-> 0, deviceData |-> EmptyMap,
                          browserData |-> EmptyMap, osData |-> EmptyMap]
    /\ (resp.op = "userstats" /\ resp.by = "getUserStats"
            /\ EventsOfUser(resp.req.q.userId, resp.req.session) = {}) =>
          resp.status = 404

\* 404 for an end user whose only events belong to the other account
C13_Witness ==
    /\ resp.op = "userstats" /\ resp.status = 404
    /\ \E i \in DOMAIN events : events[i].user_id = resp.req.q.userId

\* the zero-valued summary for the credential of the other account, which
\* holds events of that name
C13_WitnessZero ==
    /\ SummaryAnswer /\ resp.data.count = 0
    /\ \E i \in DOMAIN events : events[i].event_name = resp.req.q.event

UserStatsComputed ==
    resp.op = "userstats" /\ resp.by = "getUserStats" /\ resp.status = 200 /\ ~resp.cached

\* C14: a computed getUserStats answer for end user u has totalEvents equal
\* to the number of events with user_id = u in the caller's scope and
\* uniqueEvents equal to the number of distinct event names among them.
C14_TotalAndUniqueEvents ==
    UserStatsComputed =>
        LET own == EventsOfUser(resp.req.q.userId, resp.req.session)
        IN  /\ resp.data.totalEvents = Cardinality(own)
            /\ resp.data.uniqueEvents = Cardinality({events[i].event_name : i \in own})

\* the number of entries of a recentEvents list kept as runs of bags
RecentCount(recent) ==
    LET RECURSIVE BagSum(_, _)
        BagSum(b, S) == IF S = {} THEN 0
                        ELSE LET x == CHOOSE y \in S : TRUE
                             IN  b[x] + BagSum(b, S \ {x})
        RECURSIVE RunSum(_)
        RunSum(n) == IF n = 0 THEN 0
                     ELSE BagSum(recent[n].entries, DOMAIN recent[n].entries) + RunSum(n - 1)
    IN  RunSum(Len(recent))

\* C15: the recentEvents list of a computed getUserStats answer holds at
\* most 10 entries and no stored event of the end user more than once (so
\* no more entries than the end user has events in the caller's scope).
C15_RecentEventsBoundedAndDistinct ==
    UserStatsComputed =>
        LET own == EventsOfUser(resp.req.q.userId, resp.req.session)
            recent == resp.data.recentEvents
        IN  RecentCount(recent) <= Min(RecentLimit, Cardinality(own))

(***************************************************************************)
(* Claims about revocation and regeneration (SpecAuth).                    *)
(***************************************************************************)
Revoked(row) == row.revoked_at # NoTime
Regenerates(r, id) == r.op = "regenerate" /\ r.status = 200 /\ r.req.id = id

C16_RevokeStep ==
    (resp'.op = "revoke" /\ resp'.status = 200) =>
        \A n \in OwnedRows(resp'.req.id, resp'.req.session) :
            /\ api_keys'[n].api_key = api_keys[n].api_key
            /\ api_keys'[n].is_active = FALSE
            /\ api_keys'[n].revoked_at = now /\ Revoked(api_keys'[n])

C16_StaysRevokedStep ==
    \A n \in DOMAIN api_keys :
        Revoked(api_keys[n]) =>
            \/ Regenerates(resp', api_keys[n].id)
            \/ /\ Revoked(api_keys'[n])
               /\ api_keys'[n].is_active = FALSE
               /\ api_keys'[n].api_key = api_keys[n].api_key

C16_RevokedIsRefused ==
    /\ \A n \in DOMAIN api_keys : Revoked(api_keys[n]) => ~api_keys[n].is_active
    /\ (resp.op = "collect" /\ resp.by \notin Throttles /\ resp.req.db # "lookupFails"
           /\ \E n \in DOMAIN api_keys :
                 Revoked(api_keys[n]) /\ api_keys[n].api_key = resp.req.apiKey)
          => resp.status = 401

\* C16: a successful revokeApiKey leaves the secret of the row, sets
\* is_active to false and revoked_at to the time of the call; the row stays
\* so until regenerateApiKey succeeds on it, and meanwhile every collect
\* request presenting its secret is answered 401.
C16_RevokedUntilRegenerated ==
    [](C16_RevokedIsRefused) /\ [][C16_RevokeStep /\ C16_StaysRevokedStep]_vars

\* the secret of a revoked credential that has not expired is refused on
\* a later day
C16_Witness ==
    /\ resp.op = "collect" /\ resp.status = 401
    /\ \E n \in DOMAIN api_keys :
          /\ api_keys[n].api_key = resp.req.apiKey
          /\ Revoked(api_keys[n]) /\ api_keys[n].revoked_at < now
          /\ api_keys[n].expires_at = NoTime

Holds(rows, secret) == \E n \in DOMAIN rows : rows[n].api_key = secret

C17_RegenerateStep ==
    (resp'.op = "regenerate" /\ resp'.status = 200) =>
        /\ DOMAIN api_keys' = DOMAIN api_keys
        /\ events' = events
        /\ \A n \in OwnedRows(resp'.req.id, resp'.req.session) :
              /\ api_keys'[n].id = api_keys[n].id
              /\ api_keys'[n].user_id = api_keys[n].user_id
              /\ api_keys'[n].api_key # api_keys[n].api_key
              /\ api_keys'[n].api_key = resp'.data.api_key
              /\ api_keys'[n].is_active = TRUE
              /\ api_keys'[n].revoked_at = NoTime
              /\ api_keys'[n].expires_at > now
              /\ ~Holds(api_keys', api_keys[n].api_key)

\* a secret that was issued and is held by no row is never held again
C17_ReplacedStaysReplaced ==
    \A k \in 1..issued :
        ~Holds(api_keys, SecretOf(k)) => ~Holds(api_keys', SecretOf(k))

C17_OldRefusedNewAccepted ==
    (resp.op = "collect" /\ resp.by \notin Throttles /\ resp.req.db # "lookupFails") =>
        /\ (resp.req.apiKey \in IssuedSecrets /\ ~Holds(api_keys, resp.req.apiKey))
               => resp.status = 401
        /\ CredentialUsable(resp.req.apiKey) => resp.status # 401

\* C17: a successful regenerateApiKey keeps the row (same id, same owner,
\* the events untouched), gives it a secret different from the old one,
\* is_active true and revoked_at cleared, also when the row was revoked;
\* from then on a collect request with the old secret is answered 401 and
\* one with the new secret is not.
C17_RegenerateReplacesSecret ==
    [](C17_OldRefusedNewAccepted)
        /\ [][C17_RegenerateStep /\ C17_ReplacedStaysReplaced]_vars

\* the replaced secret is refused while the row is active under its new one
C17_Witness ==
    /\ resp.op = "collect" /\ resp.status = 401
    /\ resp.req.apiKey \in IssuedSecrets /\ ~Holds(api_keys, resp.req.apiKey)
    /\ \E n \in DOMAIN api_keys : api_keys[n].is_active /\ ~Revoked(api_keys[n])

\* the new secret of a regenerated row is accepted
C17_WitnessAccepted ==
    /\ resp.op = "collect" /\ resp.status = 201
    /\ resp.req.apiKey # SecretOf(1)
    /\ events[resp.data.id].api_key_id = KeyIdOf(1)

(***************************************************************************)
(* Claims about the event store as a whole (SpecCore).                     *)
(***************************************************************************)
\* C18: every event that is in the store before a step of the core
\* (collect, event summary, user stats, dashboard, register, revoke,
\* regenerate, the detached tasks, the clock) is in the store after it, in
\* the same place and with the same attributes.
C18_EventsAreImmutable ==
    [][\A i \in DOMAIN events : i \in DOMAIN events' /\ events'[i] = events[i]]_vars

\* a second event has been written after the credential of the first one
\* was given a new secret, and the dashboard has been read
C18_Witness ==
    /\ Len(events) = 2
    /\ events[1] # events[2]
    /\ resp.op = "dashboard" /\ resp.status = 200
    /\ resp.data.summary.total_events = 2
    /\ \E n \in DOMAIN api_keys :
          api_keys[n].id = events[1].api_key_id /\ api_keys[n].api_key # SecretOf(1)

(***************************************************************************)
(* Claims about cache failures (SpecFaults).                               *)
(***************************************************************************)
QueryAnswer(r) ==
    \/ r.op = "summary" /\ r.by = "getEventSummary"
    \/ r.op = "userstats" /\ r.by = "getUserStats"

CacheKeyOf(r) ==
    IF r.op = "summary" THEN summaryCacheKey(r.req.q, r.req.session)
    ELSE userCacheKey(r.req.q.userId, r.req.session)

\* the answer of a computation over the store alone
FromScratch(r) ==
    IF r.op = "summary"
    THEN r.status = 200 /\ r.data \in SummaryOver(events, r.req.q, r.req.session)
    ELSE LET all == UserStatsOver(events, r.req.q.userId, r.req.session)
         IN  IF all = {} THEN r.status = 404 ELSE r.status = 200 /\ r.data \in all

C19_StatePart ==
    QueryAnswer(resp) =>
        /\ resp.req.db = "ok" => resp.status # 500
        /\ ~resp.req.redisGet => ~resp.cached
        /\ ~resp.cached => FromScratch(resp)

C19_StepPart ==
    (QueryAnswer(resp') /\ CacheKeyOf(resp') \notin DOMAIN cache) => ~resp'.cached

C20_Step ==
    (resp'.op = "collect" /\ resp'.by = "collectEvent" /\ resp'.req.db = "ok"
        /\ InsertAccepted(EventRow(api_keys[CHOOSE n \in UsableRows(resp'.req.apiKey) : TRUE].id,
                                   resp'.req))) =>
        /\ resp'.status = 201
        /\ resp'.data.id = Len(events')
        /\ Len(events') = Len(events) + 1
        /\ \E t \in tasks' \ tasks : t.type = "invalidate" /\ t.ev = resp'.data.id
        /\ Invalidations(tasks) \subseteq tasks'

\* C20: a collect request that gets to the insert is answered 201 with the
\* id of the row it stored while the invalidation it issued is still
\* outstanding, and whether or not earlier invalidations have completed;
\* an invalidation that fails changes neither the store nor any answer.
C20_InvalidationNeverHoldsTheAnswer ==
    [][C20_Step
       /\ ((resp' = NoResp /\ Invalidations(tasks') # Invalidations(tasks)
               /\ Invalidations(tasks') \subseteq Invalidations(tasks))
             => events' = events)]_vars

\* the second event is acknowledged while the invalidation of the first is
\* still outstanding
C20_Witness ==
    /\ resp.op = "collect" /\ resp.status = 201 /\ resp.data.id = 2
    /\ \E t \in tasks : t.type = "invalidate" /\ t.ev = 1

(***************************************************************************)
(* Claims about the optional credential and the session (SpecOptional).    *)
(***************************************************************************)
QueryReply(r) == r.op \in {"summary", "userstats"} /\ r.by \notin Throttles

\* C21: optionalApiKey answers no request itself: whether the header is
\* absent, the secret unknown, inactive or expired, or the lookup fails,
\* the request goes on to isAuthenticated with no apiKeyData; apiKeyData is
\* attached exactly when the lookup completes and finds a usable row, and
\* is then the id of that row.
C21_OptionalKeyNeverRejects ==
    QueryReply(resp) =>
        /\ resp.by \in {"isAuthenticated", "validateQuery", "getEventSummary", "getUserStats"}
        /\ (resp.req.apiKeyData # NULL) <=>
               (resp.req.lookup = "ok" /\ CredentialUsable(resp.req.apiKey))
        /\ resp.req.apiKeyData # NULL =>
               \E n \in DOMAIN api_keys :
                   /\ api_keys[n].id = resp.req.apiKeyData
                   /\ api_keys[n].api_key = resp.req.apiKey

\* a signed-in account is served although the secret it sent was revoked
C21_Witness ==
    /\ QueryReply(resp) /\ resp.status \in {200, 404}
    /\ resp.req.apiKeyData = NULL
    /\ \E n \in DOMAIN api_keys :
          api_keys[n].api_key = resp.req.apiKey /\ ~api_keys[n].is_active

\* an identity is attached for a usable secret
C21_WitnessAttached ==
    QueryReply(resp) /\ resp.req.apiKeyData # NULL

\* C22: an event-summary or user-stats request without a session is
\* answered 401 by isAuthenticated, whether its required query parameter
\* is there or not and whether or not its API key is usable.
C22_NoSessionIs401 ==
    (QueryReply(resp) /\ resp.req.session = NULL) =>
        (resp.status = 401 /\ resp.by = "isAuthenticated")

\* no session, no required parameter, a usable API key: 401
C22_Witness ==
    /\ resp.op = "summary" /\ resp.status = 401
    /\ resp.req.session = NULL
    /\ resp.req.q.event = NULL
    /\ resp.req.apiKeyData # NULL

(***************************************************************************)
(* Claims about context enrichment (SpecEnrich, SpecCollect).              *)
(***************************************************************************)
Parsed == resp.op = "parseUserAgent"

\* C23: for every signature containing both "edg" and "chrome", whatever
\* other tokens it contains, parseUserAgent returns browser "Edge".
C23_EdgeBeforeChrome ==
    (Parsed /\ {"edg", "chrome"} \subseteq resp.req.tokens) => resp.data.browser = "Edge"

\* C24: for every signature containing "iphone" parseUserAgent returns os
\* "iOS"; the Safari-on-iPhone signature of the test gives Safari, iOS,
\* mobile.
C24_IPhoneIsIOS ==
    /\ (Parsed /\ "iphone" \in resp.req.tokens) => resp.data.os = "iOS"
    /\ (Parsed /\ resp.req.userAgent = "SafariIPhone") =>
          resp.data = [browser |-> "Safari", os |-> "iOS", device |-> "mobile"]

\* C25: for every signature containing "android" parseUserAgent returns os
\* "Android"; the Chrome-on-Android signature of the test gives Chrome,
\* Android, mobile.
C25_AndroidIsAndroid ==
    /\ (Parsed /\ "android" \in resp.req.tokens) => resp.data.os = "Android"
    /\ (Parsed /\ resp.req.userAgent = "ChromeAndroid") =>
          resp.data = [browser |-> "Chrome", os |-> "Android", device |-> "mobile"]

BrowserTokens == {"chrome", "edg", "safari", "firefox", "opera", "opr"}
OSTokens == {"windows", "mac", "linux", "android", "ios", "iphone", "ipad"}
DeviceTokens == {"mobile", "android", "tablet", "ipad"}

\* C26: parseUserAgent returns device "desktop" for every signature with
\* none of mobile, android, tablet, ipad, browser "Unknown" for every
\* signature matching no browser rule and os "Unknown" for every signature
\* matching no OS rule; every input has a result.
C26_PermissiveDefaults ==
    /\ Parsed =>
          /\ resp.req.tokens \cap DeviceTokens = {} => resp.data.device = "desktop"
          /\ resp.req.tokens \cap BrowserTokens = {} => resp.data.browser = "Unknown"
          /\ resp.req.tokens \cap OSTokens = {} => resp.data.os = "Unknown"
          /\ resp.data.device \in DeviceClasses
    /\ (resp.op = "input" /\ resp.req.fn = "parseUserAgent") => ENABLED callParseUserAgent

\* the unknown signature of the test
C26_Witness ==
    /\ Parsed /\ resp.req.userAgent = "Unknown Browser"
    /\ resp.data = [browser |-> "Unknown", os |-> "Unknown", device |-> "desktop"]

\* a browser and an OS are recognised and the device is the default
C26_WitnessDesktop ==
    /\ Parsed /\ resp.data.device = "desktop"
    /\ resp.data.browser = "Firefox" /\ resp.data.os = "Linux"

Nonempty(s) == s # NULL /\ s # ""

\* C27: extractIpAddress returns the first entry of x-forwarded-for when
\* the header is there and the entry, trimmed, is not empty; else x-real-ip;
\* else the peer address; else "unknown"; every input has a result.
C27_AddressPrecedence ==
    /\ resp.op = "extractIpAddress" =>
          LET r == resp.req
              first == IF r.xff = NoHeader THEN "" ELSE trim(r.xff[1])
          IN  /\ first # "" => resp.data.ip = first
              /\ (first = "" /\ Nonempty(r.realIp)) => resp.data.ip = r.realIp
              /\ (first = "" /\ ~Nonempty(r.realIp) /\ Nonempty(r.remote))
                    => resp.data.ip = r.remote
              /\ (first = "" /\ ~Nonempty(r.realIp) /\ ~Nonempty(r.remote))
                    => resp.data.ip = "unknown"
    /\ (resp.op = "input" /\ resp.req.fn = "extractIpAddress") => ENABLED callExtractIpAddress

\* two forwarded entries, a real-ip header and a peer: the first entry wins
C27_Witness ==
    /\ resp.op = "extractIpAddress"
    /\ Len(resp.req.xff) = 2 /\ resp.req.realIp = "10.0.0.2" /\ resp.req.remote = "10.0.0.3"
    /\ resp.data.ip = "10.0.0.1"

\* nothing to go by
C27_WitnessUnknown ==
    resp.op = "extractIpAddress" /\ resp.data.ip = "unknown"


(***************************************************************************)
(* C28.  The metadata of every persisted event holds the client signature  *)
(* of its request under the key userAgent (the text 'unknown' when the     *)
(* request had no signature header), whether the caller sent no metadata   *)
(* or metadata with a userAgent key of its own; every other key the caller *)
(* sent is stored with the caller's value, and no further key is stored.   *)
(* The first conjunct covers every row of the table, the second ties the   *)
(* row written by the request just answered 201 to that request.           *)
(***************************************************************************)
SentMetadata(r) == IF r.body.metadata = NoMeta THEN EmptyMap ELSE r.body.metadata
SentSignature(r) == IF r.userAgent = NULL \/ r.userAgent = "" THEN "unknown" ELSE r.userAgent

C28_MetadataCarriesSignature ==
    /\ \A i \in DOMAIN events :
         /\ "userAgent" \in DOMAIN events[i].metadata
         /\ events[i].metadata["userAgent"] = events[i].user_agent
    /\ (resp.op = "collect" /\ resp.status = 201) =>
         LET stored == events[resp.data.id].metadata
             sent == SentMetadata(resp.req)
         IN  /\ stored["userAgent"] = SentSignature(resp.req)
             /\ DOMAIN stored = DOMAIN sent \cup {"userAgent"}
             /\ \A k \in DOMAIN sent \ {"userAgent"} : stored[k] = sent[k]

\* an event stored for a caller whose metadata named its own userAgent
C28_Witness ==
    /\ resp.op = "collect" /\ resp.status = 201
    /\ "userAgent" \in DOMAIN SentMetadata(resp.req)
    /\ resp.req.userAgent = "SafariIPad"
    /\ events[resp.data.id].metadata["userAgent"] = "SafariIPad"
    /\ events[resp.data.id].metadata["plan"] = "pro"

\* an event stored for a caller that sent no metadata
C28_WitnessNoMetadata ==
    /\ resp.op = "collect" /\ resp.status = 201
    /\ resp.req.body.metadata = NoMeta
    /\ DOMAIN events[resp.data.id].metadata = {"userAgent"}


(***************************************************************************)
(* C29.  A request answered 429 by a throttle reaches nothing behind the   *)
(* throttle: the step stores no event, queues neither the last_used_at     *)
(* stamp nor an invalidation, changes no row of api_keys and writes or     *)
(* deletes no cache entry (within the windows the cache is what it was;    *)
(* after a quarter of an hour its entries have lapsed by their TTL).  A    *)
(* request whose budget is spent is answered 429 whatever the credential   *)
(* lookup, the database or redis would have done, so none of them is       *)
(* consulted.                                                              *)
(***************************************************************************)
Spent(store, key, max) == key \in DOMAIN store /\ store[key] >= max

\* the budget of one of the request's throttles is spent before it arrives
Throttled(r, op) ==
    LET h == Elapse(hits, r.gap)
    IN  \/ Spent(h.api, apiLimiterKey(r.remote), ApiMax)
        \/ op = "collect" /\ Spent(h.collect, keyGenerator(r.apiKey, r.remote), CollectMax)
        \/ op # "collect" /\ Spent(h.analytics, apiLimiterKey(r.remote), AnalyticsMax)

C29_Step ==
    /\ (resp' # NoResp /\ resp'.status = 429) =>
         /\ resp'.by \in Throttles
         /\ resp'.data = NoData
         /\ events' = events
         /\ tasks' = tasks
         /\ api_keys' = api_keys
         /\ issued' = issued
         /\ resp'.req.gap # "quarter" => cache' = cache
         /\ DOMAIN cache' \subseteq DOMAIN cache
         /\ \A k \in DOMAIN cache' : cache'[k] = cache[k]
    /\ (resp' # NoResp /\ Throttled(resp'.req, resp'.op)) => resp'.status = 429

C29_ThrottledReachesNothing == [][C29_Step]_vars

\* an ingestion request refused by a throttle although the credential
\* lookup would have failed, no stamp being queued, an entry in the cache
C29_Witness ==
    /\ resp.op = "collect" /\ resp.status = 429
    /\ resp.req.db = "lookupFails"
    /\ tasks = {}
    /\ cache # EmptyMap

\* a query refused by the analytics throttle while its answer is cached
C29_WitnessQuery ==
    /\ resp.op = "summary" /\ resp.status = 429 /\ resp.by = "analyticsLimiter"
    /\ resp.req.gap = "none"
    /\ cache # EmptyMap


(***************************************************************************)
(* C30.  However the requests that carry one throttle key inside one       *)
(* window overlap, the throttle admits at most its budget and refuses      *)
(* every further request with 429: no increment is lost (the store counts  *)
(* every request that reached the limiter), no two requests are handed the *)
(* same count, the requests admitted or still to be admitted are exactly   *)
(* the first budget-many that reached the limiter, so never more events    *)
(* are stored than the budget allows, and a 429 of the limiter is sent     *)
(* only when more requests than the budget have reached it.                *)
(***************************************************************************)
Pending(limiter) == {t \in tasks : t.type = "limiter" /\ t.id = limiter}

\* requests apiLimiter lets or will let pass
PassApi(remote) == Min(HitsOf(hits.api, remote), ApiMax)
\* requests that reached eventCollectionLimiter
ReachedCollection ==
    PassApi("10.0.0.1") + PassApi("10.0.0.2")
        - Cardinality({t \in Pending("apiLimiter") : t.totalHits <= ApiMax})
\* requests eventCollectionLimiter has let pass, or will on resuming
AdmittedOrDue ==
    Len(events)
        + Cardinality({t \in Pending("eventCollectionLimiter") : t.totalHits <= CollectMax})

C30_NeverMoreThanBudget ==
    /\ Len(events) <= CollectMax
    /\ \A key \in DOMAIN hits.collect : hits.collect[key] = ReachedCollection
    /\ \A t, u \in Pending("eventCollectionLimiter") : t.totalHits = u.totalHits => t = u
    /\ AdmittedOrDue = Min(ReachedCollection, CollectMax)
    /\ (resp.op = "collect" /\ resp.status = 429 /\ resp.by = "eventCollectionLimiter") =>
         ReachedCollection > CollectMax

\* everything has been answered: the budget was admitted, the rest refused
C30_Witness ==
    /\ Pending("apiLimiter") = {} /\ Pending("eventCollectionLimiter") = {}
    /\ ReachedCollection > CollectMax
    /\ Len(events) = CollectMax
    /\ resp.op = "collect" /\ resp.status = 429 /\ resp.by = "eventCollectionLimiter"

\* more requests are waiting on the limiter than budget is left
C30_WitnessOverlap ==
    /\ Cardinality(Pending("eventCollectionLimiter")) >= 3
    /\ Len(events) = CollectMax - 1


(***************************************************************************)
(* Claims about overlapping readers and writers (SpecStale).               *)
(***************************************************************************)
\* the count held by the cache entry of key k
CachedCount(c, k) == JSONparse(c[k].value).count
\* the step puts a value under key k
Stores(k) ==
    /\ k \in DOMAIN cache'
    /\ k \notin DOMAIN cache \/ cache'[k] # cache[k]

\* C31: once a write and its invalidation have completed, no summary entry
\* computed before that write is in use: a controller that stores its
\* result when no invalidation is pending stores the count of the events
\* table as it is, and a read answered from the cache when no invalidation
\* is pending carries that count.
C31_Step ==
    /\ \A k \in DOMAIN cache' :
         (Stores(k) /\ Invalidations(tasks') = {}) =>
             CachedCount(cache', k) = Len(events')
    /\ (resp'.op = "summary" /\ resp'.status = 200 /\ resp'.cached
            /\ Invalidations(tasks) = {}) =>
         resp'.data.count = Len(events')

C31_NoPreWriteValueAfterInvalidation == [][C31_Step]_vars

\* the late store alone: its violation needs a reader that overlaps a write
C31_LateStoreIsCurrent ==
    [][\A k \in DOMAIN cache' :
          (Stores(k) /\ Invalidations(tasks') = {}) =>
              CachedCount(cache', k) = Len(events')]_vars


(***************************************************************************)
(* C32.  The order of the steps of one collect request.  An invalidation   *)
(* is issued only by a request answered 201, for the row that request has  *)
(* stored (the insert has completed: the row is in the table when the      *)
(* invalidation appears, and never is an invalidation pending for a row    *)
(* that is not there); that row holds the signature, the browser and the   *)
(* operating system parsed from it and the device and address derived for  *)
(* the request (enrichment has completed before the insert); and the 201   *)
(* is sent while the invalidation is still pending, the cache untouched.   *)
(* A collect request with any other answer issues no invalidation.         *)
(***************************************************************************)
C32_Step ==
    /\ \A t \in Invalidations(tasks') : t.ev <= Len(events')
    /\ \A t \in Invalidations(tasks') \ Invalidations(tasks) :
         /\ resp'.op = "collect" /\ resp'.status = 201 /\ resp'.data.id = t.ev
         /\ Len(events') = Len(events) + 1 /\ t.ev = Len(events')
         /\ t.id = events'[t.ev].api_key_id
    /\ (resp'.op = "collect" /\ resp'.status = 201) =>
         LET e == events'[resp'.data.id]
             parsedUA == parseUserAgent(SentSignature(resp'.req))
         IN  /\ e.user_agent = SentSignature(resp'.req)
             /\ e.browser = parsedUA.browser /\ e.os = parsedUA.os
             /\ e.device \in {resp'.req.body.device, parsedUA.device}
             /\ e.ip_address \in {resp'.req.body.ipAddress,
                                  extractIpAddress(resp'.req.xff, resp'.req.realIp,
                                                   resp'.req.remote)}
             /\ InvalidateTask(e.api_key_id, resp'.data.id) \in tasks' \ tasks
             /\ \A k \in DOMAIN cache' : k \in DOMAIN cache /\ cache'[k] = cache[k]
             /\ resp'.req.gap # "quarter" => cache' = cache
    /\ (resp'.op = "collect" /\ resp'.status # 201) =>
         Invalidations(tasks') = Invalidations(tasks)

C32_EnrichInsertInvalidateRespond == [][C32_Step]_vars

\* a 201 just sent: the row with the parsed signature is stored, the
\* invalidation for it is pending
C32_Witness ==
    /\ resp.op = "collect" /\ resp.status = 201
    /\ resp.req.userAgent = "SafariIPad"
    /\ events[resp.data.id].browser = "Safari"
    /\ InvalidateTask(events[resp.data.id].api_key_id, resp.data.id) \in tasks


(***************************************************************************)
(* C33.  A collect request that gets to the insert and whose insert fails  *)
(* (the database refuses the statement, or a column refuses a value of the *)
(* row) is answered 500 'Error collecting event' without data; the events  *)
(* table is as before, no invalidation is issued and no cache entry is     *)
(* removed or changed.                                                     *)
(***************************************************************************)
\* the row the request would insert
RowOfRequest(r) == EventRow(api_keys[CHOOSE n \in UsableRows(r.apiKey) : TRUE].id, r)

InsertFails(r) ==
    \/ r.db = "insertFails"
    \/ ~IsInet(RowOfRequest(r).ip_address)
    \/ /\ RowOfRequest(r).screen_size # NULL
       /\ SizeLen(RowOfRequest(r).screen_size) > ScreenMax

C33_Step ==
    (resp'.op = "collect" /\ resp'.by = "collectEvent" /\ InsertFails(resp'.req)) =>
        /\ resp'.status = 500
        /\ resp'.message = "Error collecting event"
        /\ resp'.data = NoData
        /\ events' = events
        /\ Invalidations(tasks') = Invalidations(tasks)
        /\ \A k \in DOMAIN cache' : k \in DOMAIN cache /\ cache'[k] = cache[k]

C33_FailedInsertLeavesNothing == [][C33_Step]_vars

\* the database refused the insert of a row it would otherwise take
C33_Witness ==
    /\ resp.op = "collect" /\ resp.status = 500 /\ resp.by = "collectEvent"
    /\ resp.req.db = "insertFails"
    /\ IsInet(RowOfRequest(resp.req).ip_address)
    /\ events = <<>>
    /\ Invalidations(tasks) = {}


(***************************************************************************)
(* C34.  The last_used_at update of validateApiKey is never awaited and    *)
(* its failure never reaches a request.  A collect request that            *)
(* validateApiKey lets pass is answered while its update is still pending; *)
(* the step in which the update runs, failing or not, sends no response,   *)
(* touches neither events nor the cache, changes no column of api_keys but *)
(* last_used_at (none at all when it fails), and leaves the rows that      *)
(* accept each secret as they were, so every request is decided as it      *)
(* would have been had the update succeeded.                               *)
(***************************************************************************)
Stamps(ts) == {t \in ts : t.type = "lastUsed"}
Unstamped(row) == [row EXCEPT !.last_used_at = NoTime]

C34_Step ==
    /\ (resp'.op = "collect" /\ resp'.by \in PastValidator) =>
         \E t \in Stamps(tasks') :
             t.id = api_keys[CHOOSE n \in UsableRows(resp'.req.apiKey) : TRUE].id
    /\ Stamps(tasks') # Stamps(tasks) /\ Stamps(tasks') \subseteq Stamps(tasks) =>
         /\ resp' = NoResp
         /\ events' = events /\ cache' = cache /\ hits' = hits
         /\ Len(api_keys') = Len(api_keys)
         /\ \A n \in DOMAIN api_keys :
              /\ Unstamped(api_keys'[n]) = Unstamped(api_keys[n])
              /\ api_keys'[n].last_used_at \in {api_keys[n].last_used_at, now}
         /\ \A secret \in IssuedSecrets \cup {Bogus} :
              {n \in DOMAIN api_keys' : api_keys'[n].api_key = secret
                                        /\ api_keys'[n].is_active
                                        /\ NotExpired(api_keys'[n])}
                  = UsableRows(secret)

C34_FailedStampNeverFailsTheRequest == [][C34_Step]_vars

\* a request was stored and answered, its update has run and failed: the
\* credential has never been stamped
C34_Witness ==
    /\ events # <<>>
    /\ Stamps(tasks) = {}
    /\ \A n \in DOMAIN api_keys : api_keys[n].last_used_at = NoTime


(***************************************************************************)
(* C35.  With the database and redis available and every pending promise  *)
(* run in the end: a collect request that validateApiKey has let pass is   *)
(* eventually followed by a last_used_at of its credential that is not     *)
(* earlier than the request, and a request answered 201 is eventually      *)
(* followed by a state in which the invalidation for its row has run.      *)
(***************************************************************************)
\* the credential validateApiKey attached to the request of response r
AcceptedId(r) == api_keys[CHOOSE n \in DOMAIN api_keys : api_keys[n].api_key = r.req.apiKey].id

C35_DetachedEffectsHappen ==
    /\ \A id \in KeyIds : \A tm \in Times :
         (/\ resp.op = "collect" /\ resp.by \in PastValidator
          /\ AcceptedId(resp) = id /\ now = tm)
            ~> (HasRow(id) /\ RowOf(id).last_used_at >= tm)
    /\ \A id \in KeyIds : \A ev \in 1..LiveEvents :
         (/\ resp.op = "collect" /\ resp.status = 201
          /\ resp.data.id = ev /\ AcceptedId(resp) = id
          /\ InvalidateTask(id, ev) \in tasks)
            ~> (InvalidateTask(id, ev) \notin tasks)

\* a request has been stored and both of its detached effects have happened
C35_Witness ==
    /\ events # <<>>
    /\ tasks = {}
    /\ \E n \in DOMAIN api_keys : api_keys[n].last_used_at >= events[Len(events)].created_at
    /\ resp = NoResp


(***************************************************************************)
(* Claims about the owner check of revoke and regenerate (SpecOwner).      *)
(***************************************************************************)
LifecycleCall(r) == r.op \in {"revoke", "regenerate"} /\ r.by # "isAuthenticated"
\* no credential with the id of the call belongs to the caller
NotOwn(r) == OwnedRows(r.req.id, r.req.session) = {}

\* C36: revokeApiKey and regenerateApiKey called for an id that is not a
\* credential of the caller (another account's, or no credential at all)
\* answer 404 and leave every row of api_keys as it was.
C36_Step ==
    (LifecycleCall(resp') /\ NotOwn(resp')) =>
        /\ resp'.status = 404
        /\ api_keys' = api_keys

C36_ForeignOrUnknownIdIs404 == [][C36_Step]_vars

\* what holds of such calls: no row changes, and the answer is 404 for
\* every id that is a uuid
C36_ForeignOrUnknownIdChangesNothing ==
    [][(LifecycleCall(resp') /\ NotOwn(resp')) =>
          /\ api_keys' = api_keys
          /\ resp'.status \in {404, 500}
          /\ resp'.req.id \in Uuids => resp'.status = 404]_vars


(***************************************************************************)
(* Claims about the cache between accounts (SpecTenants).                  *)
(***************************************************************************)
\* what account A can have computed for the summary query of name event, or
\* for the statistics of end user userId, at some moment of the store
OwnSummaries(A, event) ==
    UNION {SummaryOver(OwnEvents(A, n), SummaryQ(event, NoTime, NoTime, NULL), A) :
              n \in 0..Len(events)}
OwnUserStats(A, userId) ==
    UNION {UserStatsOver(OwnEvents(A, n), userId, A) : n \in 0..Len(events)}

\* C37: a cache hit of getEventSummary or getUserStats served to account A
\* carries a value computed for A with the parameters of the request; and
\* whichever account and parameters lead to an entry of the cache, the
\* entry holds a value computed for that account with those parameters, so
\* no query of another account can put a foreign value in A's way.
C37_CacheHitsAreTheAccountsOwn ==
    /\ (resp.op = "summary" /\ resp.status = 200 /\ resp.cached) =>
          resp.data \in OwnSummaries(resp.req.session, resp.req.q.event)
    /\ (resp.op = "userstats" /\ resp.status = 200 /\ resp.cached) =>
          resp.data \in OwnUserStats(resp.req.session, resp.req.q.userId)
    /\ \A A \in Users :
         /\ \A event \in TenantNames :
              LET k == summaryCacheKey(SummaryQ(event, NoTime, NoTime, NULL), A)
              IN  k \in DOMAIN cache =>
                      JSONparse(cache[k].value) \in OwnSummaries(A, event)
         /\ \A userId \in TenantEndUsers :
              LET k == userCacheKey(userId, A)
              IN  k \in DOMAIN cache =>
                      JSONparse(cache[k].value) \in OwnUserStats(A, userId)

\* A is served from the cache while the other account, which holds events
\* of the same name, has an entry of its own for the same parameters
C37_Witness ==
    /\ resp.op = "summary" /\ resp.status = 200 /\ resp.cached
    /\ \E B \in Users \ {resp.req.session} :
         /\ summaryCacheKey(resp.req.q, B) \in DOMAIN cache
         /\ JSONparse(cache[summaryCacheKey(resp.req.q, B)].value) # resp.data

\* a hit of the user statistics for an end-user id that holds ':'
C37_WitnessUserStats ==
    /\ resp.op = "userstats" /\ resp.status = 200 /\ resp.cached
    /\ resp.req.q.userId = "a:u2"


(***************************************************************************)
(* Claims about revocation racing with ingestion (SpecRevoke).             *)
(***************************************************************************)
RevokedId(id) == \E n \in DOMAIN api_keys : api_keys[n].id = id /\ ~api_keys[n].is_active
\* the collect requests between their validation and their insert
Validated == {t \in tasks : t.type = "validated"}
ValidationOf(apiKey) ==
    \E remote \in {ClientOf(apiKey)}, event \in {"click"} :
        validateKey(CollectReq("none", remote, apiKey, BrowserOf(apiKey),
                               Body(event, NULL, "a"), "ok"))

C38_Step ==
    \* a validation that starts when the revocation has completed is refused
    \* and leaves no request on its way to the insert
    /\ \A apiKey \in IssuedSecrets :
         (/\ ValidationOf(apiKey)
          /\ \E n \in DOMAIN api_keys :
                api_keys[n].api_key = apiKey /\ ~api_keys[n].is_active)
            => /\ resp'.status = 401
               /\ Validated' = Validated
               /\ events' = events
    \* a request on its way to the insert was validated with a credential
    \* that was active at that moment
    /\ \A t \in Validated' \ Validated : ~RevokedId(t.id)
    \* an event stored under a revoked credential comes from a request that
    \* was already validated
    /\ (Len(events') > Len(events) /\ RevokedId(events'[Len(events')].api_key_id))
            => \E t \in Validated :
                  /\ t.id = events'[Len(events')].api_key_id
                  /\ t \notin Validated'

\* C38: a collect request validated after revokeApiKey completed persists
\* nothing; an event is persisted under a revoked credential only by a
\* request that was validated before the revocation.
C38_OnlyEarlierValidationsInsertAfterRevocation == [][C38_Step]_vars

\* an event has just been stored under a credential that is revoked
C38_Witness ==
    /\ resp.op = "collect" /\ resp.status = 201
    /\ Len(events) > 0
    /\ RevokedId(events[Len(events)].api_key_id)

\* a request with a revoked credential has just been refused while another
\* request, validated before the revocation, is still on its way
C38_WitnessRefused ==
    /\ resp.op = "collect" /\ resp.status = 401
    /\ \E t \in Validated : RevokedId(t.id) /\ t.req.apiKey = resp.req.apiKey


(***************************************************************************)
(* Claims about the address and the device of stored events (SpecCollect). *)
(***************************************************************************)
\* the address collectEvent resolves for the request of the last answer
ResolvedAddress ==
    extractIpAddress(resp.req.xff, resp.req.realIp, resp.req.remote)

\* C39: storage being available, a collect request that passes the
\* throttles, validateApiKey and the schema, and leaves the address to the
\* server, is answered 201 and stored with the address extractIpAddress
\* resolves, whatever that address is.
C39_StoredWhateverAddressResolves ==
    (resp.op = "collect" /\ resp.by = "collectEvent" /\ resp.req.db = "ok"
        /\ resp.req.body.ipAddress = NULL /\ resp.req.body.metadata = NoMeta) =>
        /\ resp.status = 201
        /\ Len(events) > 0
        /\ events[Len(events)].ip_address = ResolvedAddress

\* the same for the requests whose resolved address the column accepts
C39_StoredWhenAddressIsValid ==
    (resp.op = "collect" /\ resp.by = "collectEvent" /\ resp.req.db = "ok"
        /\ resp.req.body.ipAddress = NULL /\ resp.req.body.metadata = NoMeta
        /\ IsInet(ResolvedAddress)) =>
        /\ resp.status = 201
        /\ Len(events) > 0
        /\ events[Len(events)].ip_address = ResolvedAddress


\* C40: the device of every row of events is 'mobile', 'tablet' or
\* 'desktop', and a request that names another device is refused by the
\* schema and stores nothing.
C40_StoredDeviceIsAClass ==
    /\ \A i \in DOMAIN events : events[i].device \in DeviceClasses
    /\ (resp.op = "collect" /\ resp.by \notin Throttles \cup {"validateApiKey"}
          /\ resp.req.body.device # NULL /\ resp.req.body.device \notin DeviceClasses) =>
            resp.status = 400 /\ resp.by = "validate"

\* a row has just been stored with the client's device, where the
\* signature gives another class
C40_Witness ==
    /\ resp.op = "collect" /\ resp.status = 201
    /\ resp.req.body.device = "tablet"
    /\ parseUserAgent(events[Len(events)].user_agent).device = "desktop"
    /\ events[Len(events)].device = "tablet"

\* a row has just been stored with the class derived from the signature
C40_WitnessDerived ==
    /\ resp.op = "collect" /\ resp.status = 201
    /\ resp.req.body.device = NULL /\ resp.req.userAgent = "SafariIPad"
    /\ events[Len(events)].device = parseUserAgent("SafariIPad").device

\* a request naming an unknown device has just been refused
C40_WitnessRefused ==
    /\ resp.op = "collect" /\ resp.status = 400
    /\ resp.req.body.device = "smart-tv"
====
